---- MODULE Spec2Model ----
(***************************************************************************)
(* A model of the WhatsApp MCP server: the credential resolver, the phone  *)
(* validator, the request clients and the tool handlers of the package     *)
(* src/src/whatsapp_mcp, next to the legacy copies in src/connections.py,  *)
(* src/server.py and src/tools.                                            *)
(*                                                                         *)
(* Python values are modelled as follows.  A string a function iterates    *)
(* over (a phone number) is a sequence of one-character strings.  A scalar *)
(* that may be a string, None or missing from a dict is a string, with the *)
(* two reserved values Null (Python None / JSON null) and Absent (the key  *)
(* is not in the dict).  A call that may raise yields Return(v) or         *)
(* Raise(type, message).                                                   *)
(***************************************************************************)
EXTENDS Integers, Sequences, FiniteSets, TLC

VARIABLES
    env,    \* the process environment (os.environ) the invocation reads
    call,   \* the operation invoked and its arguments
    ext,    \* the replies the external services give during the invocation
    http,   \* the HTTP requests issued during the invocation, in order
    ret,    \* what the invocation returned or raised
    log     \* the credential values written into logged or printed lines

vars == <<env, call, ext, http, ret, log>>

----------------------------------------------------------------------------
(* Python values *)

Null == "<null>"
Absent == "<absent>"

\* Python truthiness of a scalar: None, a missing key's None and "" are falsy.
Truthy(v) == v \notin {Null, Absent, ""}

\* dict.get(key): None when the key is missing.
Get(v) == IF v = Absent THEN Null ELSE v

\* dict.get(key, default)
GetDefault(v, d) == IF v = Absent THEN d ELSE v

Return(v) == [state |-> "returned", value |-> v]
Raise(t, m) == [state |-> "raised", exc |-> t, msg |-> m]
Pending == [state |-> "pending"]
\* A call that waits for a reply that never comes.
Hang == [state |-> "hung"]

Raised(r) == r.state = "raised"
Returned(r) == r.state = "returned"

----------------------------------------------------------------------------
(* Bounds *)

\* Longest phone-number input, in characters.
MaxPhoneLen == 3

\* Most buttons a caller passes to send_button_message.
MaxButtonCount == 4

----------------------------------------------------------------------------
(* validate_phone_number *)

\* The characters phone-number inputs are drawn from.  "u0663" stands for
\* ARABIC-INDIC DIGIT THREE, a character str.isdigit accepts.
PhoneChars == {"0", "7", "+", " ", "a", "u0663"}

\* str.isdigit on one character.
isdigit(c) == c \in {"0", "7", "u0663"}

PhoneInputs == UNION {[1..n -> PhoneChars] : n \in 0..MaxPhoneLen}

\* A recipient that is no string: the integer 70, as a caller may bind it.
IntRecipient == <<"<int 70>">>

\* isinstance(v, str) on a recipient.
isstr(v) == v # IntRecipient

validate_phone_number_keep_plus(phone_number) ==
    IF phone_number = <<>> THEN Raise("ValueError", "Phone number is required")
    ELSE IF ~isstr(phone_number)
    THEN Raise("TypeError", "'int' object is not iterable")
    ELSE LET cleaned == SelectSeq(phone_number, LAMBDA c : isdigit(c) \/ c = "+")
         IN IF cleaned = <<>>
            THEN Raise("ValueError", "Invalid phone number format")
            ELSE Return(cleaned)

validate_phone_number(phone_number) ==
    IF phone_number = <<>> THEN Raise("ValueError", "Phone number is required")
    ELSE IF ~isstr(phone_number)
    THEN Raise("TypeError", "'int' object is not iterable")
    ELSE LET cleaned == SelectSeq(phone_number, isdigit)
         IN IF cleaned = <<>>
            THEN Raise("ValueError", "Invalid phone number format")
            ELSE Return(cleaned)

----------------------------------------------------------------------------
(* The environment *)

NangoVars == {"NANGO_CONNECTION_ID", "NANGO_INTEGRATION_ID", "NANGO_BASE_URL",
              "NANGO_SECRET_KEY"}

EnvVars == NangoVars \cup {"WHATSAPP_PHONE_NUMBER_ID", "WHATSAPP_BUSINESS_ACCOUNT_ID"}

\* The text a variable holds when it was copied from a template and never
\* filled in.  The source names the two WHATSAPP_ placeholders; it names none
\* for the NANGO_ variables, whose placeholders here follow the same pattern.
PlaceholderOf(v) ==
    CASE v = "WHATSAPP_PHONE_NUMBER_ID" -> "your_whatsapp_phone_number_id"
      [] v = "WHATSAPP_BUSINESS_ACCOUNT_ID" -> "your_whatsapp_business_account_id"
      [] v = "NANGO_CONNECTION_ID" -> "your_nango_connection_id"
      [] v = "NANGO_INTEGRATION_ID" -> "your_nango_integration_id"
      [] v = "NANGO_BASE_URL" -> "your_nango_base_url"
      [] v = "NANGO_SECRET_KEY" -> "your_nango_secret_key"

\* A real value of each variable.
ValueOf(v) ==
    CASE v = "WHATSAPP_PHONE_NUMBER_ID" -> "phone-env"
      [] v = "WHATSAPP_BUSINESS_ACCOUNT_ID" -> "waba-env"
      [] v = "NANGO_CONNECTION_ID" -> "conn-1"
      [] v = "NANGO_INTEGRATION_ID" -> "whatsapp-business"
      [] v = "NANGO_BASE_URL" -> "https://api.nango.dev"
      [] v = "NANGO_SECRET_KEY" -> "secret-1"

\* What a variable may hold: unset, empty, its placeholder, a real value.
EnvValues(v) == {Absent, "", PlaceholderOf(v), ValueOf(v)}

\* Every environment: each variable unset, empty, a placeholder or real.
AllEnvs ==
    [NANGO_CONNECTION_ID : EnvValues("NANGO_CONNECTION_ID"),
     NANGO_INTEGRATION_ID : EnvValues("NANGO_INTEGRATION_ID"),
     NANGO_BASE_URL : EnvValues("NANGO_BASE_URL"),
     NANGO_SECRET_KEY : EnvValues("NANGO_SECRET_KEY"),
     WHATSAPP_PHONE_NUMBER_ID : EnvValues("WHATSAPP_PHONE_NUMBER_ID"),
     WHATSAPP_BUSINESS_ACCOUNT_ID : EnvValues("WHATSAPP_BUSINESS_ACCOUNT_ID")]

FullEnv == [v \in EnvVars |-> ValueOf(v)]
NoEnv == [v \in EnvVars |-> Absent]

\* os.environ.get(name)
environ_get(e, v) == Get(e[v])

NoCall == [op |-> "none"]
NoReply == [net |-> "none"]
NoExt == [nango |-> NoReply, graph |-> NoReply]

----------------------------------------------------------------------------
(* Credential documents and the credential source's replies *)

\* A credential document as the credential source returns it: a JSON object
\* with an optional top-level apiKey and an optional member "credentials",
\* which is null or an object with optional apiKey and access_token; or a
\* JSON value that is no object at all (kind "list").
TopKeys == {Absent, Null, "", "Y"}
NestedKeys == {Absent, Null, "", "X"}
NestedTokens == {Absent, Null, "", "Z"}

Doc(k, top, ck, ca, ct) ==
    [kind |-> k, apiKey |-> top, credentials |-> ck, cred_apiKey |-> ca,
     cred_access_token |-> ct]

Docs ==
    {Doc("dict", top, "dict", ca, ct) :
        top \in TopKeys, ca \in NestedKeys, ct \in NestedTokens}
    \cup {Doc("dict", top, ck, Absent, Absent) : top \in TopKeys, ck \in {"absent", "null"}}
    \cup {Doc("list", Absent, "absent", Absent, Absent)}

NoDoc == Doc("none", Absent, "absent", Absent, Absent)

\* The credential source's reply: no reply within the timeout, an HTTP error
\* status, or 200 with a credential document.
NangoReply(n, st, d) == [net |-> n, status |-> st, doc |-> d]

NangoFailures == {NangoReply("timeout", 0, NoDoc)}
                 \cup {NangoReply("ok", st, NoDoc) : st \in {401, 500}}

NangoReplies == NangoFailures \cup {NangoReply("ok", 200, d) : d \in Docs}

----------------------------------------------------------------------------
(* HTTP requests *)

\* Seconds every request of the package waits for a reply.
RequestTimeout == 10

NoPayload == [type |-> "none"]

\* timeout is {seconds}, or {} for a request made without a timeout.
Request(m, svc, res, id, auth, body, timeout) ==
    [method |-> m, service |-> svc, resource |-> res, id |-> id, auth |-> auth,
     timeout |-> timeout, payload |-> body]

\* What a step that may issue requests yields: its outcome and its requests.
Step(out, reqs) == [out |-> out, http |-> reqs]

----------------------------------------------------------------------------
(* get_connection_credentials, package *)

MissingNangoVars(e) == {v \in NangoVars : ~Truthy(environ_get(e, v))}

NangoRequest(e) ==
    Request("GET", "nango", "connection", environ_get(e, "NANGO_CONNECTION_ID"),
            environ_get(e, "NANGO_SECRET_KEY"), NoPayload, {RequestTimeout})

\* Whether requests accepts f"{base_url}/connection/{connection_id}" as a URL:
\* only a base URL that starts with a scheme does; otherwise requests.get
\* raises MissingSchema, a RequestException, and sends nothing.
HasScheme(base_url) == base_url = ValueOf("NANGO_BASE_URL")

\* requests.get(...), raise_for_status(), response.json() with the
\* RequestException wrapped in ValueError.
FetchCredentials(e, reply) ==
    IF ~HasScheme(environ_get(e, "NANGO_BASE_URL"))
    THEN Step(Raise("ValueError", "Failed to get credentials from Nango"), <<>>)
    ELSE IF reply.net # "ok" \/ reply.status >= 400
         THEN Step(Raise("ValueError", "Failed to get credentials from Nango"),
                   <<NangoRequest(e)>>)
         ELSE Step(Return(reply.doc), <<NangoRequest(e)>>)

get_connection_credentials_unchecked(e, reply) == FetchCredentials(e, reply)

get_connection_credentials(e, reply) ==
    IF MissingNangoVars(e) # {}
    THEN Step(Raise("ValueError", "Missing required Nango environment variables"), <<>>)
    ELSE FetchCredentials(e, reply)

----------------------------------------------------------------------------
(* The default identifiers, package *)

\* get_default_phone_number_id
get_default_phone_number_id(e) ==
    LET phone_number_id == environ_get(e, "WHATSAPP_PHONE_NUMBER_ID") IN
    IF ~Truthy(phone_number_id) \/ phone_number_id = "your_whatsapp_phone_number_id"
    THEN Raise("ValueError",
               "WHATSAPP_PHONE_NUMBER_ID environment variable is not set or still contains placeholder value")
    ELSE Return(phone_number_id)

\* get_default_business_account_id
get_default_business_account_id(e) ==
    LET business_account_id == environ_get(e, "WHATSAPP_BUSINESS_ACCOUNT_ID") IN
    IF ~Truthy(business_account_id)
       \/ business_account_id = "your_whatsapp_business_account_id"
    THEN Raise("ValueError",
               "WHATSAPP_BUSINESS_ACCOUNT_ID environment variable is not set or still contains placeholder value")
    ELSE Return(business_account_id)

----------------------------------------------------------------------------
(* Token resolution, package *)

\* credentials.get("credentials", {}).get(key): the nested value, None when
\* "credentials" or the key is missing; raises when "credentials" is null.
NestedGet(credentials, v) ==
    IF credentials.credentials = "null"
    THEN Raise("AttributeError", "'NoneType' object has no attribute 'get'")
    ELSE Return(Get(v))

\* credentials.get("apiKey") or credentials.get("credentials", {}).get("apiKey")
\*     or credentials.get("credentials", {}).get("access_token")
access_token_nested_first(credentials) ==
    IF credentials.kind # "dict"
    THEN Raise("AttributeError", "'list' object has no attribute 'get'")
    ELSE LET b == NestedGet(credentials, credentials.cred_apiKey)
             a == Get(credentials.apiKey)
             c == NestedGet(credentials, credentials.cred_access_token)
         IN IF Raised(b) THEN b
            ELSE IF Truthy(b.value) THEN b
            ELSE IF Truthy(a) THEN Return(a)
            ELSE c

access_token_of(credentials) ==
    IF credentials.kind # "dict"
    THEN Raise("AttributeError", "'list' object has no attribute 'get'")
    ELSE LET a == Get(credentials.apiKey)
             b == NestedGet(credentials, credentials.cred_apiKey)
             c == NestedGet(credentials, credentials.cred_access_token)
         IN IF Truthy(a) THEN Return(a)
            ELSE IF Raised(b) THEN b
            ELSE IF Truthy(b.value) THEN b
            ELSE c

\* utils.get_access_token
get_access_token(e, reply) ==
    LET got == get_connection_credentials(e, reply) IN
    IF Raised(got.out) THEN got
    ELSE LET tok == access_token_of(got.out.value) IN
         IF Raised(tok) THEN Step(tok, got.http)
         ELSE IF ~Truthy(tok.value)
              THEN Step(Raise("ValueError", "Access token not found in Nango credentials"),
                        got.http)
              ELSE Step(tok, got.http)

\* WhatsAppClient.__init__ and WhatsAppTemplateClient.__init__: the client is
\* its endpoint (resource and id) and its bearer token.
Client(res, id, token) == [resource |-> res, id |-> id, access_token |-> token]

ClientInit_no_token_check(e, reply, res, id) ==
    LET got == get_connection_credentials(e, reply) IN
    IF Raised(got.out) THEN Step(Return(Client(res, id, Null)), got.http)
    ELSE LET tok == access_token_of(got.out.value) IN
         IF Raised(tok) THEN Step(Return(Client(res, id, Null)), got.http)
         ELSE Step(Return(Client(res, id, tok.value)), got.http)

ClientInit_cached_token(e, reply, res, id) ==
    IF \E j \in DOMAIN call : call[j].pc # "idle" /\ call[j].ready.state = "ready"
    THEN LET j == CHOOSE j \in DOMAIN call :
                      call[j].pc # "idle" /\ call[j].ready.state = "ready"
         IN Step(Return(Client(res, id, call[j].ready.client.access_token)), <<>>)
    ELSE LET got == get_connection_credentials(e, reply) IN
         IF Raised(got.out) THEN got
         ELSE LET tok == access_token_of(got.out.value) IN
              IF Raised(tok) THEN Step(tok, got.http)
              ELSE IF ~Truthy(tok.value)
                   THEN Step(Raise("ValueError",
                                   "API key is missing from Nango credentials"),
                             got.http)
                   ELSE Step(Return(Client(res, id, tok.value)), got.http)

ClientInit(e, reply, res, id) ==
    LET got == get_connection_credentials(e, reply) IN
    IF Raised(got.out) THEN got
    ELSE LET tok == access_token_of(got.out.value) IN
         IF Raised(tok) THEN Step(tok, got.http)
         ELSE IF ~Truthy(tok.value)
              THEN Step(Raise("ValueError", "API key is missing from Nango credentials"),
                        got.http)
              ELSE Step(Return(Client(res, id, tok.value)), got.http)

WhatsAppClient(e, reply, phone_number_id) ==
    ClientInit(e, reply, "messages", phone_number_id)

WhatsAppTemplateClient(e, reply, business_account_id) ==
    ClientInit(e, reply, "message_templates", business_account_id)


----------------------------------------------------------------------------
(* The Graph API's replies *)

\* Python None as a Result's result.
PyNone == [kind |-> "null"]

\* The uniform Result.
Result(r, e) == [result |-> r, error |-> e]

\* A template of the fetched list; status is Absent when the entry has none.
Template(n, st) == [name |-> n, status |-> st]

TemplateLists ==
    {<<>>,
     <<Template("a", Absent), Template("b", "APPROVED")>>,
     <<Template("b", "PENDING"), Template("a", Absent), Template("b", "APPROVED"),
       Template("c", "Approved")>>,
     <<Template("a", Null)>>}

\* The message an error object may carry under "message".
Messages == {Absent, Null, "", "Invalid token"}

\* The raw text (response.text) of a JSON object body.
ErrorText(err, msg, cap) ==
    CASE err = "absent" -> ""
      [] err = "null" -> "error:null"
      [] err = "str" -> "error:oops"
      [] err = "dict" -> "error:{" \o (IF msg = Absent THEN "" ELSE "message:" \o msg)
                                    \o (IF cap = Absent THEN "" ELSE "caption:" \o cap) \o "}"

DataText(hasData, data) ==
    IF ~hasData THEN "" ELSE IF data = <<>> THEN "data:[]" ELSE "data:[...]"

\* A response body that is a JSON object: its "error" member (absent, null, a
\* string, or an object with optional message and caption) and its optional
\* "data" list.
DictBody(err, msg, cap, hasData, data) ==
    [kind |-> "dict", error |-> err, message |-> msg, caption |-> cap,
     has_data |-> hasData, data |-> data,
     text |-> "{" \o ErrorText(err, msg, cap) \o DataText(hasData, data) \o "}"]

\* A response body that is no JSON object: not JSON at all, null, a list.
OtherBody(k, t) ==
    [kind |-> k, error |-> "absent", message |-> Absent, caption |-> Absent,
     has_data |-> FALSE, data |-> <<>>, text |-> t]

NotJsonBody == OtherBody("notjson", "<html>Bad Gateway</html>")
NullBody == OtherBody("null", "null")
ListBody == OtherBody("list", "[]")

GraphBodies ==
    {NotJsonBody, NullBody, ListBody}
    \cup {DictBody("dict", m, Absent, FALSE, <<>>) : m \in Messages}
    \cup {DictBody("dict", Absent, "cap", FALSE, <<>>)}
    \cup {DictBody(e, Absent, Absent, FALSE, <<>>) : e \in {"absent", "null", "str"}}
    \cup {DictBody("absent", Absent, Absent, TRUE, d) : d \in TemplateLists}

GraphStatuses == {200, 201, 401}

GraphReply(n, st, b) == [net |-> n, status |-> st, body |-> b]

TimeoutReply == GraphReply("timeout", 0, NullBody)

GraphReplies ==
    {TimeoutReply} \cup {GraphReply("ok", st, b) : st \in GraphStatuses, b \in GraphBodies}

\* response.json(): the parsed body, or the decoder's exception.
json(body) ==
    CASE body.kind = "notjson" ->
            Raise("JSONDecodeError", "Expecting value: line 1 column 1 (char 0)")
      [] body.kind = "null" -> Return(PyNone)
      [] OTHER -> Return(body)

\* response_data.get("error", {}).get(key, response.text)
error_message(body, key) ==
    CASE body.kind = "null" ->
            Raise("AttributeError", "'NoneType' object has no attribute 'get'")
      [] body.kind = "list" ->
            Raise("AttributeError", "'list' object has no attribute 'get'")
      [] body.error = "null" ->
            Raise("AttributeError", "'NoneType' object has no attribute 'get'")
      [] body.error = "str" ->
            Raise("AttributeError", "'str' object has no attribute 'get'")
      [] body.error = "absent" -> Return(body.text)
      [] OTHER -> Return(GetDefault(body[key], body.text))

TimeoutMessage == "Read timed out. (read timeout=10)"

\* The response handling every operation repeats after its requests.post or
\* requests.get: parse the body, return it on status 200, otherwise the
\* error member's `key`; any exception becomes the error.
handle_response_created_only(reply, key) ==
    IF reply.net # "ok" THEN Result(PyNone, TimeoutMessage)
    ELSE LET response_data == json(reply.body) IN
         IF Raised(response_data) THEN Result(PyNone, response_data.msg)
         ELSE IF reply.status = 201 THEN Result(response_data.value, Null)
         ELSE LET m == error_message(reply.body, key) IN
              IF Raised(m) THEN Result(PyNone, m.msg)
              ELSE Result(PyNone, m.value)

handle_response(reply, key) ==
    IF reply.net # "ok" THEN Result(PyNone, TimeoutMessage)
    ELSE LET response_data == json(reply.body) IN
         IF Raised(response_data) THEN Result(PyNone, response_data.msg)
         ELSE IF reply.status = 200 THEN Result(response_data.value, Null)
         ELSE LET m == error_message(reply.body, key) IN
              IF Raised(m) THEN Result(PyNone, m.msg)
              ELSE Result(PyNone, m.value)

----------------------------------------------------------------------------
(* The request clients, package *)

GraphRequest(m, client, payload) ==
    Request(m, "graph", client.resource, client.id, client.access_token, payload,
            {RequestTimeout})

\* WhatsAppClient.send_request
send_request(client, payload, reply) ==
    Step(Return(handle_response(reply, "message")),
         <<GraphRequest("POST", client, payload)>>)

\* WhatsAppTemplateClient.get_templates
get_templates(client, reply) ==
    Step(Return(handle_response(reply, "message")),
         <<GraphRequest("GET", client, NoPayload)>>)

\* WhatsAppTemplateClient.create_template
client_create_template(client, payload, reply) ==
    Step(Return(handle_response(reply, "message")),
         <<GraphRequest("POST", client, payload)>>)

----------------------------------------------------------------------------
(* Message payloads *)

TextPayload(to, message) ==
    [messaging_product |-> "whatsapp", to |-> to, type |-> "text",
     text |-> [body |-> message]]

\* The template payload of send_text_message.
PlainTemplatePayload(to, template_name, language_code) ==
    [messaging_product |-> "whatsapp", to |-> to, type |-> "template",
     template |-> [name |-> template_name, language |-> [code |-> language_code]]]

\* An image, video, document or audio payload: the link, and each optional
\* field only when it is wanted.
Media(link, withCaption, caption, withFilename, filename) ==
    CASE withCaption /\ withFilename ->
            [link |-> link, caption |-> caption, filename |-> filename]
      [] withCaption /\ ~withFilename -> [link |-> link, caption |-> caption]
      [] ~withCaption /\ withFilename -> [link |-> link, filename |-> filename]
      [] OTHER -> [link |-> link]

\* {"messaging_product": "whatsapp", "to": to, "type": type, type: media}
MediaPayload(to, type, media) ==
    [messaging_product |-> "whatsapp", to |-> to, type |-> type] @@ (type :> media)

----------------------------------------------------------------------------
(* The legacy credential fetch and client, src/connections.py, src/server.py
   and src/tools *)

\* connections.get_connection_credentials: no check of the environment, no
\* timeout, and the HTTPError of raise_for_status is not wrapped.
LegacyNangoRequest(e) ==
    Request("GET", "nango", "connection", environ_get(e, "NANGO_CONNECTION_ID"),
            environ_get(e, "NANGO_SECRET_KEY"), NoPayload, {})

connections_get_connection_credentials(e, reply) ==
    IF ~HasScheme(environ_get(e, "NANGO_BASE_URL"))
    THEN Step(Raise("MissingSchema", "Invalid URL: No scheme supplied"), <<>>)
    ELSE IF reply.net # "ok" THEN Step(Hang, <<LegacyNangoRequest(e)>>)
    ELSE IF reply.status >= 400
         THEN Step(Raise("HTTPError", "Client Error for url"), <<LegacyNangoRequest(e)>>)
         ELSE Step(Return(reply.doc), <<LegacyNangoRequest(e)>>)

\* credentials.get("apiKey", credentials.get("credentials", {}).get("apiKey")):
\* the default is evaluated before the lookup.
legacy_access_token_of(credentials) ==
    IF credentials.kind # "dict"
    THEN Raise("AttributeError", "'list' object has no attribute 'get'")
    ELSE LET b == NestedGet(credentials, credentials.cred_apiKey) IN
         IF Raised(b) THEN b
         ELSE Return(GetDefault(credentials.apiKey, b.value))

\* What connections.get_access_token yields: its outcome, its requests and
\* the values it wrote into log lines.
Logged(out, reqs, lines) == [out |-> out, http |-> reqs, log |-> lines]

\* credentials.get("credentials", {}).get("apiKey")
connections_access_token_of(credentials) ==
    IF credentials.kind # "dict"
    THEN Raise("AttributeError", "'list' object has no attribute 'get'")
    ELSE NestedGet(credentials, credentials.cred_apiKey)

\* connections.get_access_token: the token goes into the log line
\* "Access token: ..." before it is tested.
connections_get_access_token(e, reply) ==
    LET got == connections_get_connection_credentials(e, reply) IN
    IF ~Returned(got.out) THEN Logged(got.out, got.http, <<>>)
    ELSE LET access_token == connections_access_token_of(got.out.value) IN
         IF Raised(access_token) THEN Logged(access_token, got.http, <<>>)
         ELSE IF ~Truthy(access_token.value)
              THEN Logged(Raise("ValueError", "Access token not found in credentials"),
                          got.http, <<access_token.value>>)
              ELSE Logged(access_token, got.http, <<access_token.value>>)

\* WhatsAppClient.__init__ of src/server.py and of the scripts in src/tools.
LegacyClientInit(e, reply, res, id) ==
    LET got == connections_get_connection_credentials(e, reply) IN
    IF ~Returned(got.out) THEN got
    ELSE LET tok == legacy_access_token_of(got.out.value) IN
         IF Raised(tok) THEN Step(tok, got.http)
         ELSE IF ~Truthy(tok.value)
              THEN Step(Raise("ValueError", "API key is missing from credentials"),
                        got.http)
              ELSE Step(Return(Client(res, id, tok.value)), got.http)

\* src/tools/send_image_using_url.py, WhatsAppClient.send_image_with_text
tools_send_image_with_text(client, to, caption, image_url, reply) ==
    IF to = <<>>
    THEN Step(Return(Result(PyNone, "Recipient phone number is required")), <<>>)
    ELSE IF image_url = ""
    THEN Step(Return(Result(PyNone, "Image URL is required")), <<>>)
    ELSE LET payload == MediaPayload(to, "image",
                            Media(image_url, caption # "", caption, FALSE, ""))
         IN Step(Return(handle_response(reply, "caption")),
                 <<GraphRequest("POST", client, payload)>>)

\* src/server.py, send_text_message
server_send_text_message(e, nango, phone_number_id, to, message, template_name, language_code, reply) ==
    LET c == LegacyClientInit(e, nango, "messages", phone_number_id) IN
    IF c.out = Hang THEN c
    ELSE IF Raised(c.out) THEN Step(Return(Result(PyNone, c.out.msg)), c.http)
    ELSE IF to = <<>>
    THEN Step(Return(Result(PyNone, "Recipient phone number is required")), c.http)
    ELSE IF message = "" /\ template_name = ""
    THEN Step(Return(Result(PyNone,
                 "Either 'message' or 'template_name' must be provided")), c.http)
    ELSE LET digits == SelectSeq(to, isdigit)
             payload == IF message # "" THEN TextPayload(digits, message)
                        ELSE PlainTemplatePayload(digits, template_name, language_code)
         IN Step(Return(handle_response(reply, "message")),
                 c.http \o <<GraphRequest("POST", c.out.value, payload)>>)

----------------------------------------------------------------------------
(* The tool handlers, package: tools/messages.py *)

\* What `except Exception as e` returns.
Fail(msg, reqs) == Step(Return(Result(PyNone, msg)), reqs)

Send_retry_on_failure(client, payload, graph, before) ==
    LET s == send_request(client, payload, graph) IN
    IF graph.net = "ok" /\ graph.status = 200 THEN Step(s.out, before \o s.http)
    ELSE Step(s.out, before \o s.http \o s.http)

\* return client.send_request(payload), after the requests `before`.
Send(client, payload, graph, before) ==
    LET s == send_request(client, payload, graph) IN Step(s.out, before \o s.http)

\* phone_number_id when given, the configured default when it is None.
PhoneNumberId(e, phone_number_id) ==
    IF phone_number_id = Null THEN get_default_phone_number_id(e)
    ELSE Return(phone_number_id)

\* business_account_id when given, the configured default when it is None.
BusinessAccountId(e, business_account_id) ==
    IF business_account_id = Null THEN get_default_business_account_id(e)
    ELSE Return(business_account_id)

\* The opening of the send handlers: the phone-number ID `id` (a value, or
\* the exception its default raised), then the client, then the recipient.
Opening(e, nango, to, id) ==
    IF Raised(id) THEN Step(id, <<>>)
    ELSE LET c == WhatsAppClient(e, nango, id.value) IN
         IF Raised(c.out) THEN c
         ELSE LET to_clean == validate_phone_number(to) IN
              IF Raised(to_clean) THEN Step(to_clean, c.http)
              ELSE Step(Return([client |-> c.out.value, to_clean |-> to_clean.value]),
                        c.http)

send_text_message(e, nango, graph, to, message, template_name, language_code, phone_number_id) ==
    LET o == Opening(e, nango, to, PhoneNumberId(e, phone_number_id)) IN
    IF Raised(o.out) THEN Fail(o.out.msg, o.http)
    ELSE IF Truthy(message)
         THEN Send(o.out.value.client, TextPayload(o.out.value.to_clean, message),
                   graph, o.http)
    ELSE IF Truthy(template_name)
         THEN Send(o.out.value.client,
                   PlainTemplatePayload(o.out.value.to_clean, template_name, language_code),
                   graph, o.http)
    ELSE Fail("Either 'message' or 'template_name' must be provided", o.http)

send_image_message(e, nango, graph, to, image_url, caption, phone_number_id) ==
    LET o == Opening(e, nango, to, PhoneNumberId(e, phone_number_id)) IN
    IF Raised(o.out) THEN Fail(o.out.msg, o.http)
    ELSE IF ~Truthy(image_url) THEN Fail("Image URL is required", o.http)
    ELSE Send(o.out.value.client,
              MediaPayload(o.out.value.to_clean, "image",
                           Media(image_url, Truthy(caption), caption, FALSE, "")),
              graph, o.http)

send_video_message(e, nango, graph, to, video_url, caption, phone_number_id) ==
    LET o == Opening(e, nango, to, PhoneNumberId(e, phone_number_id)) IN
    IF Raised(o.out) THEN Fail(o.out.msg, o.http)
    ELSE IF ~Truthy(video_url) THEN Fail("Video URL is required", o.http)
    ELSE Send(o.out.value.client,
              MediaPayload(o.out.value.to_clean, "video",
                           Media(video_url, Truthy(caption), caption, FALSE, "")),
              graph, o.http)

send_document_message(e, nango, graph, to, document_url, caption, filename, phone_number_id) ==
    LET o == Opening(e, nango, to, PhoneNumberId(e, phone_number_id)) IN
    IF Raised(o.out) THEN Fail(o.out.msg, o.http)
    ELSE IF ~Truthy(document_url) THEN Fail("Document URL is required", o.http)
    ELSE Send(o.out.value.client,
              MediaPayload(o.out.value.to_clean, "document",
                           Media(document_url, Truthy(caption), caption,
                                 Truthy(filename), filename)),
              graph, o.http)

send_audio_message_url_unchecked(e, nango, graph, to, audio_url, phone_number_id) ==
    LET o == Opening(e, nango, to, PhoneNumberId(e, phone_number_id)) IN
    IF Raised(o.out) THEN Fail(o.out.msg, o.http)
    ELSE Send(o.out.value.client,
              MediaPayload(o.out.value.to_clean, "audio",
                           Media(audio_url, FALSE, "", FALSE, "")),
              graph, o.http)

send_audio_message(e, nango, graph, to, audio_url, phone_number_id) ==
    LET o == Opening(e, nango, to, PhoneNumberId(e, phone_number_id)) IN
    IF Raised(o.out) THEN Fail(o.out.msg, o.http)
    ELSE IF ~Truthy(audio_url) THEN Fail("Audio URL is required", o.http)
    ELSE Send(o.out.value.client,
              MediaPayload(o.out.value.to_clean, "audio",
                           Media(audio_url, FALSE, "", FALSE, "")),
              graph, o.http)

----------------------------------------------------------------------------
(* The tool handlers, package: tools/interactive.py *)

\* The most buttons a button message may carry.
MaxButtons == 3

send_list_message(e, nango, graph, phone_number_id, to, sections, header_text, body_text, footer_text, button_text) ==
    LET o == Opening(e, nango, to, Return(phone_number_id)) IN
    IF Raised(o.out) THEN Fail(o.out.msg, o.http)
    ELSE IF sections = <<>> THEN Fail("Sections are required for list message", o.http)
    ELSE Send(o.out.value.client,
              [messaging_product |-> "whatsapp", recipient_type |-> "individual",
               to |-> o.out.value.to_clean, type |-> "interactive",
               interactive |->
                   [type |-> "list",
                    header |-> [type |-> "text", text |-> header_text],
                    body |-> [text |-> body_text],
                    footer |-> [text |-> footer_text],
                    action |-> [button |-> button_text, sections |-> sections]]],
              graph, o.http)

\* interactive_data of send_button_message: header and footer only when given.
ButtonInteractive(body_text, buttons, header_text, footer_text) ==
    LET base == [type |-> "button", body |-> [text |-> body_text],
                 action |-> [buttons |-> buttons]]
        header == IF Truthy(header_text)
                  THEN [header |-> [type |-> "text", text |-> header_text]]
                  ELSE <<>>
        footer == IF Truthy(footer_text) THEN [footer |-> [text |-> footer_text]]
                  ELSE <<>>
    IN base @@ header @@ footer

send_button_message(e, nango, graph, phone_number_id, to, body_text, buttons, header_text, footer_text) ==
    LET o == Opening(e, nango, to, Return(phone_number_id)) IN
    IF Raised(o.out) THEN Fail(o.out.msg, o.http)
    ELSE IF buttons = <<>> \/ Len(buttons) > MaxButtons
         THEN Fail("Must provide 1-3 buttons for button message", o.http)
    ELSE Send(o.out.value.client,
              [messaging_product |-> "whatsapp", recipient_type |-> "individual",
               to |-> o.out.value.to_clean, type |-> "interactive",
               interactive |->
                   ButtonInteractive(body_text, buttons, header_text, footer_text)],
              graph, o.http)

----------------------------------------------------------------------------
(* The tool handlers, package: tools/templates.py *)

\* The values of the enumeration TemplateLanguage.
TemplateLanguage == {"en", "es", "fr", "de", "it", "pt", "ar", "hi"}

upper_case_sensitive(x) == x

\* str.upper on the strings the handlers upper-case.
upper(x) ==
    CASE x \in {"marketing", "Marketing"} -> "MARKETING"
      [] x = "utility" -> "UTILITY"
      [] x = "authentication" -> "AUTHENTICATION"
      [] x = "social" -> "SOCIAL"
      [] x \in {"approved", "Approved"} -> "APPROVED"
      [] x = "pending" -> "PENDING"
      [] OTHER -> x

\* A template parameter the caller passes: a dict, with or without the keys
\* "type" and "text", or a plain value.
Param(k, hasType, hasText, text) ==
    [kind |-> k, has_type |-> hasType, has_text |-> hasText, text |-> text]

\* str(param)
str(param) ==
    IF param.kind = "dict"
    THEN "{" \o (IF param.has_type THEN "'type': 'text'" ELSE "")
             \o (IF param.has_text THEN "'text': '" \o param.text \o "'" ELSE "") \o "}"
    ELSE param.text

\* The parameter send_template_message sends for the caller's parameter.
FormatParameter(param) ==
    IF param.kind = "dict" /\ param.has_type /\ param.has_text THEN param
    ELSE Param("dict", TRUE, TRUE, str(param))

FormatParameters(parameters) ==
    [i \in 1..Len(parameters) |-> FormatParameter(parameters[i])]

send_template_message(e, nango, graph, to, template_name, parameters, language, phone_number_id) ==
    LET o == Opening(e, nango, to, PhoneNumberId(e, phone_number_id)) IN
    IF Raised(o.out) THEN Fail(o.out.msg, o.http)
    ELSE LET code == IF language \in TemplateLanguage THEN language ELSE "en"
             formatted_parameters == FormatParameters(parameters)
             template_data ==
                 [name |-> template_name, language |-> [code |-> code]]
                 @@ (IF formatted_parameters # <<>>
                     THEN [components |->
                              <<[type |-> "body", parameters |-> formatted_parameters]>>]
                     ELSE <<>>)
         IN Send(o.out.value.client,
                 [messaging_product |-> "whatsapp", to |-> o.out.value.to_clean,
                  type |-> "template", template |-> template_data],
                 graph, o.http)

\* src/server.py, send_template_message
server_send_template_message(e, nango, phone_number_id, to, template_name, parameters, language, reply) ==
    LET c == LegacyClientInit(e, nango, "messages", phone_number_id) IN
    IF c.out = Hang THEN c
    ELSE IF Raised(c.out) THEN Fail(c.out.msg, c.http)
    ELSE LET code == IF language \in TemplateLanguage THEN language ELSE "en"
             payload ==
                 [messaging_product |-> "whatsapp", to |-> to, type |-> "template",
                  template |->
                      [name |-> template_name, language |-> [code |-> code],
                       components |->
                           <<[type |-> "body",
                              parameters |-> FormatParameters(parameters)]>>]]
         IN Step(Return(handle_response(reply, "message")),
                 c.http \o <<GraphRequest("POST", c.out.value, payload)>>)

\* The opening of the template handlers: the business-account ID, then the
\* client.
TemplateOpening(e, nango, business_account_id) ==
    LET id == BusinessAccountId(e, business_account_id) IN
    IF Raised(id) THEN Step(id, <<>>)
    ELSE WhatsAppTemplateClient(e, nango, id.value)

\* response["result"].get("data", []) on a fetched result.
FetchedTemplates(result) ==
    CASE result = PyNone ->
            Raise("AttributeError", "'NoneType' object has no attribute 'get'")
      [] result.kind = "list" ->
            Raise("AttributeError", "'list' object has no attribute 'get'")
      [] OTHER -> Return(IF result.has_data THEN result.data ELSE <<>>)

FirstNamed_last(templates, template_name) ==
    LET I == {i \in 1..Len(templates) : Get(templates[i].name) = template_name}
    IN IF I = {} THEN 0 ELSE CHOOSE i \in I : \A j \in I : i >= j

\* The first template of the list named template_name; 0 when there is none.
FirstNamed(templates, template_name) ==
    LET I == {i \in 1..Len(templates) : Get(templates[i].name) = template_name}
    IN IF I = {} THEN 0 ELSE CHOOSE i \in I : \A j \in I : i <= j

check_template_status(e, nango, graph, template_name, business_account_id) ==
    LET c == TemplateOpening(e, nango, business_account_id) IN
    IF Raised(c.out) THEN Fail(c.out.msg, c.http)
    ELSE LET r == get_templates(c.out.value, graph)
             reqs == c.http \o r.http
             response == r.out.value
         IN IF Truthy(response.error) THEN Step(Return(response), reqs)
            ELSE LET templates == FetchedTemplates(response.result) IN
                 IF Raised(templates) THEN Fail(templates.msg, reqs)
                 ELSE LET i == FirstNamed(templates.value, template_name) IN
                      IF i # 0
                      THEN Step(Return(Result(templates.value[i], Null)), reqs)
                      ELSE Fail("Template not found", reqs)

\* src/server.py, create_template: the category is the literal "MARKETING".
server_create_template(e, nango, whatsapp_business_account_id, template_name, language, body, header, footer, button, reply) ==
    LET c == LegacyClientInit(e, nango, "message_templates", whatsapp_business_account_id)
    IN IF c.out = Hang THEN c
       ELSE IF Raised(c.out) THEN Fail(c.out.msg, c.http)
       ELSE LET payload == [name |-> template_name, language |-> language,
                            category |-> "MARKETING",
                            components |-> <<header, body, footer, button>>]
            IN Step(Return(handle_response(reply, "message")),
                    c.http \o <<GraphRequest("POST", c.out.value, payload)>>)

\* src/server.py, check_template_status
server_check_template_status(e, nango, business_account_id, template_name, reply) ==
    LET c == LegacyClientInit(e, nango, "message_templates", business_account_id) IN
    IF c.out = Hang THEN c
    ELSE IF Raised(c.out) THEN Fail(c.out.msg, c.http)
    ELSE LET reqs == c.http \o <<GraphRequest("GET", c.out.value, NoPayload)>>
             response_data == json(reply.body)
         IN IF reply.net # "ok" THEN Fail(TimeoutMessage, reqs)
            ELSE IF Raised(response_data) THEN Fail(response_data.msg, reqs)
            ELSE IF reply.status = 200
                 THEN LET templates == FetchedTemplates(response_data.value) IN
                      IF Raised(templates) THEN Fail(templates.msg, reqs)
                      ELSE LET i == FirstNamed(templates.value, template_name) IN
                           IF i # 0
                           THEN Step(Return(Result(templates.value[i], Null)), reqs)
                           ELSE Fail("Template not found", reqs)
            ELSE LET m == error_message(reply.body, "message") IN
                 Fail(IF Raised(m) THEN m.msg ELSE m.value, reqs)

\* Whether t.get("status", "").upper() raises: it does on a null status.
StatusRaises(templates) == \E i \in 1..Len(templates) : templates[i].status = Null

list_templates(e, nango, graph, status_filter, business_account_id) ==
    LET c == TemplateOpening(e, nango, business_account_id) IN
    IF Raised(c.out) THEN Fail(c.out.msg, c.http)
    ELSE LET r == get_templates(c.out.value, graph)
             reqs == c.http \o r.http
             response == r.out.value
         IN IF Truthy(response.error) THEN Step(Return(response), reqs)
            ELSE LET fetched == FetchedTemplates(response.result) IN
                 IF Raised(fetched) THEN Fail(fetched.msg, reqs)
                 ELSE IF Truthy(status_filter) /\ StatusRaises(fetched.value)
                 THEN Fail("'NoneType' object has no attribute 'upper'", reqs)
                 ELSE LET templates ==
                              IF Truthy(status_filter)
                              THEN SelectSeq(fetched.value,
                                       LAMBDA t : upper(GetDefault(t.status, ""))
                                                  = upper(status_filter))
                              ELSE fetched.value
                      IN Step(Return(Result([templates |-> templates,
                                             count |-> Len(templates)], Null)), reqs)

valid_categories == {"MARKETING", "UTILITY", "AUTHENTICATION"}

create_template_unvalidated(e, nango, graph, template_name, language, category, components, business_account_id) ==
    LET c == TemplateOpening(e, nango, business_account_id) IN
    IF Raised(c.out) THEN Fail(c.out.msg, c.http)
    ELSE IF category = Null
         THEN Fail("'NoneType' object has no attribute 'upper'", c.http)
    ELSE LET payload == [name |-> template_name, language |-> language,
                         category |-> upper(category), components |-> components]
             s == client_create_template(c.out.value, payload, graph)
         IN Step(s.out, c.http \o s.http)

create_template(e, nango, graph, template_name, language, category, components, business_account_id) ==
    LET c == TemplateOpening(e, nango, business_account_id) IN
    IF Raised(c.out) THEN Fail(c.out.msg, c.http)
    ELSE IF category = Null
         THEN Fail("'NoneType' object has no attribute 'upper'", c.http)
    ELSE IF upper(category) \notin valid_categories
         THEN Fail("Invalid category. Must be one of: ['MARKETING', 'UTILITY', 'AUTHENTICATION']",
                   c.http)
    ELSE LET payload == [name |-> template_name, language |-> language,
                         category |-> upper(category), components |-> components]
             s == client_create_template(c.out.value, payload, graph)
         IN Step(s.out, c.http \o s.http)

----------------------------------------------------------------------------
(* The phone validator applied to every bounded input *)

InitPhone ==
    /\ env = NoEnv
    /\ call \in {[op |-> "validate_phone_number", phone_number |-> s] : s \in PhoneInputs}
    /\ ext = NoExt
    /\ http = <<>>
    /\ ret = Pending
    /\ log = <<>>

ValidatePhone ==
    /\ call.op = "validate_phone_number"
    /\ ret = Pending
    /\ ret' = validate_phone_number(call.phone_number)
    /\ UNCHANGED <<env, call, ext, http, log>>

NextPhone == ValidatePhone

SpecPhone == InitPhone /\ [][NextPhone]_vars

\* The digit characters of s, in their order in s.
RECURSIVE DigitsOf(_)
DigitsOf(s) ==
    IF s = <<>> THEN <<>>
    ELSE IF isdigit(Head(s)) THEN <<Head(s)>> \o DigitsOf(Tail(s))
         ELSE DigitsOf(Tail(s))

HasDigit(s) == \E i \in 1..Len(s) : isdigit(s[i])

\* C6: validate_phone_number returns exactly the digits of an input holding
\* at least one digit, in their original order, and raises a validation
\* error (ValueError) for the empty input and for an input holding no digit.
C6_DigitsOnly ==
    (call.op = "validate_phone_number" /\ ret # Pending) =>
        LET s == call.phone_number IN
        /\ HasDigit(s) =>
              /\ Returned(ret)
              /\ ret.value = DigitsOf(s)
              /\ \A i \in 1..Len(ret.value) : ret.value[i] \in {"0", "7", "u0663"}
        /\ ~HasDigit(s) => (Raised(ret) /\ ret.exc = "ValueError")
        /\ s = <<>> => (Raised(ret) /\ ret.msg = "Phone number is required")

\* A mixed input was cleaned: digits kept in order, the rest removed.
C6_Witness ==
    /\ call.op = "validate_phone_number"
    /\ call.phone_number = <<"+", "7", "0">>
    /\ ret = Return(<<"7", "0">>)

----------------------------------------------------------------------------
(* The token resolvers applied to every credential document *)

InitToken ==
    /\ env = FullEnv
    /\ call = NoCall
    /\ ext \in {[nango |-> r, graph |-> NoReply] : r \in NangoReplies}
    /\ http = <<>>
    /\ ret = Pending
    /\ log = <<>>

\* utils.get_access_token()
GetAccessToken ==
    /\ ret = Pending
    /\ LET s == get_access_token(env, ext.nango) IN
       /\ call' = [op |-> "get_access_token"]
       /\ ret' = s.out
       /\ http' = s.http
    /\ UNCHANGED <<env, ext, log>>

\* WhatsAppClient(phone_number_id)
NewWhatsAppClient ==
    /\ ret = Pending
    /\ \E id \in {"phone-1"} :
        LET s == WhatsAppClient(env, ext.nango, id) IN
        /\ call' = [op |-> "WhatsAppClient", phone_number_id |-> id]
        /\ ret' = s.out
        /\ http' = s.http
    /\ UNCHANGED <<env, ext, log>>

\* WhatsAppTemplateClient(business_account_id)
NewWhatsAppTemplateClient ==
    /\ ret = Pending
    /\ \E id \in {"waba-1"} :
        LET s == WhatsAppTemplateClient(env, ext.nango, id) IN
        /\ call' = [op |-> "WhatsAppTemplateClient", business_account_id |-> id]
        /\ ret' = s.out
        /\ http' = s.http
    /\ UNCHANGED <<env, ext, log>>

\* connections.get_access_token()
ConnectionsGetAccessToken ==
    /\ ret = Pending
    /\ LET s == connections_get_access_token(env, ext.nango) IN
       /\ call' = [op |-> "connections.get_access_token"]
       /\ ret' = s.out
       /\ http' = s.http
       /\ log' = s.log
    /\ UNCHANGED <<env, ext>>

\* WhatsAppClient(phone_number_id) of src/server.py
NewLegacyWhatsAppClient ==
    /\ ret = Pending
    /\ \E id \in {"phone-1"} :
        LET s == LegacyClientInit(env, ext.nango, "messages", id) IN
        /\ call' = [op |-> "server.WhatsAppClient", phone_number_id |-> id]
        /\ ret' = s.out
        /\ http' = s.http
    /\ UNCHANGED <<env, ext, log>>

NextToken ==
    \/ GetAccessToken
    \/ NewWhatsAppClient
    \/ NewWhatsAppTemplateClient
    \/ ConnectionsGetAccessToken
    \/ NewLegacyWhatsAppClient

SpecToken == InitToken /\ [][NextToken]_vars

PackageResolvers == {"get_access_token", "WhatsAppClient", "WhatsAppTemplateClient"}

\* The three locations of a token, in the order the claim gives.
TokenLocations(d) == <<d.apiKey, d.cred_apiKey, d.cred_access_token>>

\* A location holds a token when it holds a non-empty string.
HoldsToken(v) == v \notin {Absent, Null, ""}

\* The first location that holds a token; 0 when none does.
FirstLocation(d) ==
    LET I == {i \in 1..3 : HoldsToken(TokenLocations(d)[i])}
    IN IF I = {} THEN 0 ELSE CHOOSE i \in I : \A j \in I : i <= j

\* The token a finished resolver call resolved.
ResolvedToken ==
    IF call.op = "get_access_token" THEN ret.value ELSE ret.value.access_token

\* A document whose "credentials" member, when present, is an object.
WellFormedDoc(d) == d.kind = "dict" /\ d.credentials \in {"absent", "dict"}

\* C2: over a fetched credential document the resolvers return the token of
\* the first of top-level apiKey, credentials.apiKey, credentials.access_token
\* that holds one, and raise when none of the three holds a token (the
\* "not found" ValueError when the document is well formed).
C2_ResolutionOrder ==
    (call.op \in PackageResolvers /\ ret # Pending
        /\ ext.nango.net = "ok" /\ ext.nango.status = 200) =>
        LET d == ext.nango.doc
            i == FirstLocation(d)
        IN /\ i # 0 => (Returned(ret) /\ ResolvedToken = TokenLocations(d)[i])
           /\ i = 0 => Raised(ret)
           /\ (i = 0 /\ WellFormedDoc(d)) =>
                 /\ ret.exc = "ValueError"
                 /\ ret.msg \in {"Access token not found in Nango credentials",
                                 "API key is missing from Nango credentials"}
           /\ d = Doc("dict", Absent, "dict", "X", Absent) => ResolvedToken = "X"
           /\ d = Doc("dict", "Y", "absent", Absent, Absent) => ResolvedToken = "Y"
           /\ d = Doc("dict", "Y", "dict", "X", Absent) => ResolvedToken = "Y"

\* A document holding a token at the top level and at credentials.apiKey
\* resolved to the top-level one.
C2_Witness ==
    /\ call.op = "get_access_token"
    /\ ext.nango.doc = Doc("dict", "Y", "dict", "X", "Z")
    /\ ret = Return("Y")

\* Every token resolver of the repository.
AllResolvers ==
    PackageResolvers \cup {"connections.get_access_token", "server.WhatsAppClient"}

\* What a resolver that returns the token, and one that returns a client,
\* resolved: the token, or the mark of a failure.
TokenReturned(out) == IF Returned(out) THEN out.value ELSE "<fails>"
TokenHeld(out) == IF Returned(out) THEN out.value.access_token ELSE "<fails>"

\* What each resolver makes of the credential document fetched.
ResolverOutcomes ==
    <<TokenReturned(get_access_token(env, ext.nango).out),
      TokenHeld(WhatsAppClient(env, ext.nango, "phone-1").out),
      TokenHeld(WhatsAppTemplateClient(env, ext.nango, "waba-1").out),
      TokenReturned(connections_get_access_token(env, ext.nango).out),
      TokenHeld(LegacyClientInit(env, ext.nango, "messages", "phone-1").out)>>

\* C27: on every credential document all token resolvers of the repository
\* agree: they all return the same token, or they all fail.
C27_ResolversAgree ==
    (call.op \in AllResolvers /\ ret # Pending
        /\ ext.nango.net = "ok" /\ ext.nango.status = 200) =>
        \A i, j \in 1..Len(ResolverOutcomes) : ResolverOutcomes[i] = ResolverOutcomes[j]

\* The tokens the credential document fetched holds.
TokensOf(d) == {TokenLocations(d)[k] : k \in {i \in 1..3 : HoldsToken(TokenLocations(d)[i])}}

\* C30: the access token of the credential document is only ever the bearer
\* token of a Graph API request: no logged or printed line carries it, and no
\* request to another service does.
C30_TokenConfined ==
    \A t \in TokensOf(ext.nango.doc) :
        /\ \A k \in 1..Len(log) : log[k] # t
        /\ \A i \in 1..Len(http) : http[i].auth = t => http[i].service = "graph"

----------------------------------------------------------------------------
(* The request clients applied to every reply of the Graph API *)

\* A credential document with a token, and the client built from it.
GoodDoc == Doc("dict", "Y", "absent", Absent, Absent)
GoodNango == NangoReply("ok", 200, GoodDoc)
MessagesClient == Client("messages", "phone-1", "Y")
TemplatesClient == Client("message_templates", "waba-1", "Y")

InitClient ==
    /\ env = FullEnv
    /\ call = NoCall
    /\ ext \in {[nango |-> GoodNango, graph |-> r] : r \in GraphReplies}
    /\ http = <<>>
    /\ ret = Pending
    /\ log = <<>>

\* WhatsAppClient.send_request(payload)
SendRequest ==
    /\ ret = Pending
    /\ \E message \in {"hi"} :
        LET s == send_request(MessagesClient, TextPayload(<<"7", "0">>, message), ext.graph)
        IN /\ call' = [op |-> "send_request"]
           /\ ret' = s.out
           /\ http' = s.http
    /\ UNCHANGED <<env, ext, log>>

\* WhatsAppTemplateClient.get_templates()
GetTemplates ==
    /\ ret = Pending
    /\ LET s == get_templates(TemplatesClient, ext.graph)
       IN /\ call' = [op |-> "get_templates"]
          /\ ret' = s.out
          /\ http' = s.http
    /\ UNCHANGED <<env, ext, log>>

\* WhatsAppTemplateClient.create_template(payload)
ClientCreateTemplate ==
    /\ ret = Pending
    /\ \E category \in {"MARKETING"} :
        LET payload == [name |-> "t", language |-> "en", category |-> category,
                        components |-> <<>>]
            s == client_create_template(TemplatesClient, payload, ext.graph)
        IN /\ call' = [op |-> "client.create_template"]
           /\ ret' = s.out
           /\ http' = s.http
    /\ UNCHANGED <<env, ext, log>>

\* src/tools/send_image_using_url.py: WhatsAppClient.send_image_with_text
ToolsSendImageWithText ==
    /\ ret = Pending
    /\ \E to \in {<<>>, <<"7", "0">>, <<"+", "7">>}, caption \in {"", "look"},
          image_url \in {"", "http://i"} :
        LET s == tools_send_image_with_text(MessagesClient, to, caption, image_url, ext.graph)
        IN /\ call' = [op |-> "tools.send_image_with_text", to |-> to,
                       caption |-> caption, image_url |-> image_url]
           /\ ret' = s.out
           /\ http' = s.http
    /\ UNCHANGED <<env, ext, log>>

\* src/server.py: send_text_message
ServerSendTextMessage ==
    /\ ret = Pending
    /\ \E to \in {<<>>, <<"+", "7">>, <<"a">>}, message \in {"", "hi"},
          template_name \in {"", "t"} :
        LET s == server_send_text_message(env, ext.nango, "phone-1", to, message,
                                          template_name, "en_US", ext.graph)
        IN /\ call' = [op |-> "server.send_text_message", to |-> to,
                       message |-> message, template_name |-> template_name]
           /\ ret' = s.out
           /\ http' = s.http
    /\ UNCHANGED <<env, ext, log>>

NextClient ==
    \/ SendRequest
    \/ GetTemplates
    \/ ClientCreateTemplate
    \/ ToolsSendImageWithText
    \/ ServerSendTextMessage

SpecClient == InitClient /\ [][NextClient]_vars

\* The invocation sent a request to the Graph API and the reply is status st.
GraphAnswered == ret # Pending /\ ext.graph.net = "ok"
                 /\ \E i \in 1..Len(http) : http[i].service = "graph"

PackageClientOps == {"send_request", "get_templates", "client.create_template"}

\* C3 as claimed: on HTTP 200 the request client returns {result: body,
\* error: null}, whatever the body.
C3_Claimed ==
    (call.op \in PackageClientOps /\ GraphAnswered /\ ext.graph.status = 200) =>
        /\ Returned(ret)
        /\ ret.value.error = Null
        /\ ret.value.result = (IF ext.graph.body.kind = "null" THEN PyNone
                               ELSE ext.graph.body)

\* C3, amended: on HTTP 200 with a body that parses as JSON the request
\* client returns {result: parsed body, error: null}; on HTTP 200 with a body
\* that is not JSON it returns {result: null, error: the decoder's message}.
C3_Status200 ==
    (call.op \in PackageClientOps /\ GraphAnswered /\ ext.graph.status = 200) =>
        /\ Returned(ret)
        /\ ext.graph.body.kind # "notjson" =>
              /\ ret.value.error = Null
              /\ ret.value.result = (IF ext.graph.body.kind = "null" THEN PyNone
                                     ELSE ext.graph.body)
        /\ ext.graph.body.kind = "notjson" =>
              /\ ret.value.result = PyNone
              /\ ret.value.error = "Expecting value: line 1 column 1 (char 0)"

\* send_request returned the body of a 200 reply as its result.
C3_Witness ==
    /\ call.op = "send_request"
    /\ ext.graph = GraphReply("ok", 200, DictBody("absent", Absent, Absent, FALSE, <<>>))
    /\ ret = Return(Result(ext.graph.body, Null))
    /\ Len(http) = 1

\* C4: in every operation a non-200 reply with body {"error": {"message": M}}
\* yields {result: null, error: M}.
C4_ErrorMessage ==
    (GraphAnswered /\ ext.graph.status # 200
        /\ ext.graph.body.kind = "dict" /\ ext.graph.body.error = "dict"
        /\ ext.graph.body.message \notin {Absent, Null}) =>
        /\ Returned(ret)
        /\ ret.value = Result(PyNone, ext.graph.body.message)

\* C5: a non-200 reply whose body carries no error.message (no error member,
\* an error object without message, or a body that is no JSON object) yields
\* {result: null, error: raw response text}.
NoErrorMessage(b) ==
    \/ b.kind # "dict"
    \/ b.error # "dict"
    \/ b.message = Absent

C5_RawText ==
    (call.op \in PackageClientOps /\ GraphAnswered /\ ext.graph.status # 200
        /\ NoErrorMessage(ext.graph.body)) =>
        /\ Returned(ret)
        /\ ret.value = Result(PyNone, ext.graph.body.text)

----------------------------------------------------------------------------
(* Credential retrieval under every environment *)

\* What the credential source may answer in these runs.
CredReplies == NangoFailures \cup {GoodNango}

InitCred ==
    /\ env \in AllEnvs
    /\ call = NoCall
    /\ ext \in {[nango |-> r, graph |-> NoReply] : r \in CredReplies}
    /\ http = <<>>
    /\ ret = Pending
    /\ log = <<>>

\* utils.get_connection_credentials()
GetConnectionCredentials ==
    /\ ret = Pending
    /\ LET s == get_connection_credentials(env, ext.nango) IN
       /\ call' = [op |-> "get_connection_credentials"]
       /\ ret' = s.out
       /\ http' = s.http
    /\ UNCHANGED <<env, ext, log>>

\* connections.get_connection_credentials()
ConnectionsGetConnectionCredentials ==
    /\ ret = Pending
    /\ LET s == connections_get_connection_credentials(env, ext.nango) IN
       /\ call' = [op |-> "connections.get_connection_credentials"]
       /\ ret' = s.out
       /\ http' = s.http
    /\ UNCHANGED <<env, ext, log>>

\* utils.get_default_phone_number_id()
GetDefaultPhoneNumberId ==
    /\ ret = Pending
    /\ call' = [op |-> "get_default_phone_number_id"]
    /\ ret' = get_default_phone_number_id(env)
    /\ UNCHANGED <<env, ext, http, log>>

\* utils.get_default_business_account_id()
GetDefaultBusinessAccountId ==
    /\ ret = Pending
    /\ call' = [op |-> "get_default_business_account_id"]
    /\ ret' = get_default_business_account_id(env)
    /\ UNCHANGED <<env, ext, http, log>>

NextCred ==
    \/ GetConnectionCredentials
    \/ ConnectionsGetConnectionCredentials
    \/ GetDefaultPhoneNumberId
    \/ GetDefaultBusinessAccountId

SpecCred == InitCred /\ [][NextCred]_vars

CredentialRetrievals ==
    {"get_connection_credentials", "connections.get_connection_credentials"}

\* C8: credential retrieval raises the configuration error whenever one of
\* the four required identifiers is absent, and then sends no HTTP request.
C8_ConfigError ==
    (call.op \in CredentialRetrievals /\ ret # Pending
        /\ \E v \in NangoVars : env[v] = Absent) =>
        /\ Raised(ret)
        /\ ret.exc = "ValueError"
        /\ ret.msg = "Missing required Nango environment variables"
        /\ http = <<>>

----------------------------------------------------------------------------
(* The tool handlers of the package, invoked in every world *)

\* The environments the handlers run in: the full one, and the full one with
\* one variable unset, empty or left as a placeholder.
HandlerEnvs == UNION {{[FullEnv EXCEPT ![v] = x] : x \in EnvValues(v)} : v \in EnvVars}

\* The credential documents the handlers meet: a token at each location, no
\* token, a null "credentials" member, no JSON object.
HandlerDocs ==
    {GoodDoc,
     Doc("dict", Absent, "dict", "X", Absent),
     Doc("dict", Absent, "dict", Absent, "Z"),
     Doc("dict", Absent, "dict", Absent, Absent),
     Doc("dict", Absent, "null", Absent, Absent),
     Doc("list", Absent, "absent", Absent, Absent)}

HandlerNango == NangoFailures \cup {NangoReply("ok", 200, d) : d \in HandlerDocs}

\* A 200 reply to a send, and a 401 reply with an error message.
OkReply == GraphReply("ok", 200, DictBody("absent", Absent, Absent, FALSE, <<>>))
DeniedReply == GraphReply("ok", 401, DictBody("dict", "Invalid token", Absent, FALSE, <<>>))

World(e, n, g) == [env |-> e, nango |-> n, graph |-> g]

\* The worlds an invocation runs in: every environment with a credential
\* source that answers or refuses, every credential reply, every Graph reply.
Worlds ==
    {World(e, n, OkReply) : e \in HandlerEnvs, n \in {GoodNango, NangoReply("ok", 401, NoDoc)}}
    \cup {World(FullEnv, n, g) : n \in HandlerNango, g \in {OkReply, DeniedReply}}
    \cup {World(FullEnv, GoodNango, g) : g \in GraphReplies}

Init ==
    /\ \E w \in Worlds :
        /\ env = w.env
        /\ ext = [nango |-> w.nango, graph |-> w.graph]
    /\ call = NoCall
    /\ http = <<>>
    /\ ret = Pending
    /\ log = <<>>

\* The arguments the handlers are called with.
Recipients == {<<>>, <<"a">>, <<"+", "7", "0">>, IntRecipient}
PhoneNumberIds == {Null, "phone-1"}
BusinessAccountIds == {Null, "waba-1"}
Urls == {"", "http://m"}
Captions == {"", "cap"}
Section == [title |-> "Section 1", rows |-> <<[id |-> "option1", title |-> "First"]>>]
Button(i) == [type |-> "reply", reply |-> [id |-> i, title |-> "Yes"]]
ButtonLists == {[i \in 1..n |-> Button(i)] : n \in 0..MaxButtonCount}
ParameterLists ==
    {<<>>,
     <<Param("dict", TRUE, TRUE, "John")>>,
     <<Param("str", FALSE, FALSE, "John"), Param("dict", FALSE, TRUE, "x")>>}

\* A handler ran: what it was called with, what it returned, what it sent.
Ran(c, s) ==
    /\ ret = Pending
    /\ call' = c
    /\ ret' = s.out
    /\ http' = s.http
    /\ UNCHANGED <<env, ext, log>>

SendTextMessage ==
    \E to \in Recipients, message \in {"", "hi"}, template_name \in {"", "t"},
       language_code \in {"en_US", "es"}, phone_number_id \in PhoneNumberIds :
        Ran([op |-> "send_text_message", to |-> to, message |-> message,
             template_name |-> template_name, language_code |-> language_code,
             phone_number_id |-> phone_number_id],
            send_text_message(env, ext.nango, ext.graph, to, message, template_name,
                              language_code, phone_number_id))

SendImageMessage ==
    \E to \in Recipients, image_url \in Urls, caption \in Captions,
       phone_number_id \in PhoneNumberIds :
        Ran([op |-> "send_image_message", to |-> to, image_url |-> image_url,
             caption |-> caption, phone_number_id |-> phone_number_id],
            send_image_message(env, ext.nango, ext.graph, to, image_url, caption,
                               phone_number_id))

SendVideoMessage ==
    \E to \in Recipients, video_url \in Urls, caption \in Captions,
       phone_number_id \in PhoneNumberIds :
        Ran([op |-> "send_video_message", to |-> to, video_url |-> video_url,
             caption |-> caption, phone_number_id |-> phone_number_id],
            send_video_message(env, ext.nango, ext.graph, to, video_url, caption,
                               phone_number_id))

SendDocumentMessage ==
    \E to \in Recipients, document_url \in Urls, caption \in Captions,
       filename \in {"", "f.pdf"}, phone_number_id \in PhoneNumberIds :
        Ran([op |-> "send_document_message", to |-> to, document_url |-> document_url,
             caption |-> caption, filename |-> filename,
             phone_number_id |-> phone_number_id],
            send_document_message(env, ext.nango, ext.graph, to, document_url, caption,
                                  filename, phone_number_id))

SendAudioMessage ==
    \E to \in Recipients, audio_url \in Urls, phone_number_id \in PhoneNumberIds :
        Ran([op |-> "send_audio_message", to |-> to, audio_url |-> audio_url,
             phone_number_id |-> phone_number_id],
            send_audio_message(env, ext.nango, ext.graph, to, audio_url, phone_number_id))

SendListMessage ==
    \E to \in Recipients, sections \in {<<>>, <<Section>>}, header_text \in {"", "H"},
       body_text \in {"", "B"}, footer_text \in {"", "F"} :
        Ran([op |-> "send_list_message", phone_number_id |-> "phone-1", to |-> to,
             sections |-> sections, header_text |-> header_text, body_text |-> body_text,
             footer_text |-> footer_text, button_text |-> "Options"],
            send_list_message(env, ext.nango, ext.graph, "phone-1", to, sections,
                              header_text, body_text, footer_text, "Options"))

SendButtonMessage ==
    \E to \in Recipients, buttons \in ButtonLists, header_text \in {"", "H"},
       body_text \in {"", "B"}, footer_text \in {"", "F"} :
        Ran([op |-> "send_button_message", phone_number_id |-> "phone-1", to |-> to,
             body_text |-> body_text, buttons |-> buttons, header_text |-> header_text,
             footer_text |-> footer_text],
            send_button_message(env, ext.nango, ext.graph, "phone-1", to, body_text,
                                buttons, header_text, footer_text))

SendTemplateMessage ==
    \E to \in Recipients, template_name \in {"", "t"}, parameters \in ParameterLists,
       language \in {"es", "xx"}, phone_number_id \in PhoneNumberIds :
        Ran([op |-> "send_template_message", to |-> to, template_name |-> template_name,
             parameters |-> parameters, language |-> language,
             phone_number_id |-> phone_number_id],
            send_template_message(env, ext.nango, ext.graph, to, template_name,
                                  parameters, language, phone_number_id))

CheckTemplateStatus ==
    \E template_name \in {"a", "b", "c"}, business_account_id \in BusinessAccountIds :
        Ran([op |-> "check_template_status", template_name |-> template_name,
             business_account_id |-> business_account_id],
            check_template_status(env, ext.nango, ext.graph, template_name,
                                  business_account_id))

ListTemplates ==
    \E status_filter \in {"", "approved", "PENDING"},
       business_account_id \in BusinessAccountIds :
        Ran([op |-> "list_templates", status_filter |-> status_filter,
             business_account_id |-> business_account_id],
            list_templates(env, ext.nango, ext.graph, status_filter, business_account_id))

CreateTemplate ==
    \E category \in {"MARKETING", "marketing", "social", Null},
       business_account_id \in BusinessAccountIds :
        Ran([op |-> "create_template", template_name |-> "t", language |-> "en",
             category |-> category, components |-> <<>>,
             business_account_id |-> business_account_id],
            create_template(env, ext.nango, ext.graph, "t", "en", category, <<>>,
                            business_account_id))

\* src/server.py: check_template_status
ServerCheckTemplateStatus ==
    \E template_name \in {"a", "b", "c"} :
        Ran([op |-> "server.check_template_status", template_name |-> template_name,
             business_account_id |-> "waba-1"],
            server_check_template_status(env, ext.nango, "waba-1", template_name,
                                         ext.graph))

\* src/server.py: create_template
ServerCreateTemplate ==
    \E header \in {"", "Hello"} :
        Ran([op |-> "server.create_template", template_name |-> "t", language |-> "en",
             body |-> "Welcome", header |-> header,
             whatsapp_business_account_id |-> "waba-1"],
            server_create_template(env, ext.nango, "waba-1", "t", "en", "Welcome", header,
                                   "", "", ext.graph))

\* src/server.py: send_template_message
ServerSendTemplateMessage ==
    \E to \in {<<"7", "0">>}, parameters \in ParameterLists, language \in {"es", "xx"} :
        Ran([op |-> "server.send_template_message", to |-> to, template_name |-> "t",
             parameters |-> parameters, language |-> language,
             phone_number_id |-> "phone-1"],
            server_send_template_message(env, ext.nango, "phone-1", to, "t", parameters,
                                         language, ext.graph))

Next ==
    \/ SendTextMessage
    \/ SendImageMessage
    \/ SendVideoMessage
    \/ SendDocumentMessage
    \/ SendAudioMessage
    \/ SendListMessage
    \/ SendButtonMessage
    \/ SendTemplateMessage
    \/ CheckTemplateStatus
    \/ ListTemplates
    \/ CreateTemplate
    \/ ServerCheckTemplateStatus
    \/ ServerCreateTemplate
    \/ ServerSendTextMessage
    \/ ServerSendTemplateMessage
    \/ ToolsSendImageWithText

Spec == Init /\ [][Next]_vars

Handlers ==
    {"send_text_message", "send_image_message", "send_video_message",
     "send_document_message", "send_audio_message", "send_list_message",
     "send_button_message", "send_template_message", "check_template_status",
     "list_templates", "create_template"}

\* A handler of the package has run.
HandlerDone == call.op \in Handlers /\ ret # Pending

\* The requests of the invocation that went to service svc.
RequestsTo(svc) == {i \in 1..Len(http) : http[i].service = svc}

\* C1: every handler returns a Result with exactly one of result and error
\* non-null, whatever the arguments, the configuration and the replies.
C1_ExactlyOne ==
    HandlerDone =>
        /\ Returned(ret)
        /\ (ret.value.result = PyNone) # (ret.value.error = Null)

\* C7: send_button_message with more than 3 buttons returns the validation
\* error and issues no HTTP request at all, neither to the credential source
\* nor to the Graph API.
C7_NoNetworkCall ==
    (HandlerDone /\ call.op = "send_button_message" /\ Len(call.buttons) > 3) =>
        /\ ret = Return(Result(PyNone, "Must provide 1-3 buttons for button message"))
        /\ http = <<>>

\* The errors that report a missing or placeholder configuration value.
ConfigErrors ==
    {"Missing required Nango environment variables",
     "WHATSAPP_PHONE_NUMBER_ID environment variable is not set or still contains placeholder value",
     "WHATSAPP_BUSINESS_ACCOUNT_ID environment variable is not set or still contains placeholder value"}

\* The default identifier the invocation falls back to, if any.
FallsBackTo ==
    IF call.op \in {"send_list_message", "send_button_message"} THEN {}
    ELSE IF call.op \in {"check_template_status", "list_templates", "create_template"}
         THEN IF call.business_account_id = Null THEN {"WHATSAPP_BUSINESS_ACCOUNT_ID"}
              ELSE {}
    ELSE IF call.phone_number_id = Null THEN {"WHATSAPP_PHONE_NUMBER_ID"} ELSE {}

\* The configuration values the invocation requires.
RequiredVars == NangoVars \cup FallsBackTo

\* C9 as claimed: a required configuration value that is absent or holds its
\* placeholder text makes the operation fail with a configuration error.
C9_Claimed ==
    (HandlerDone /\ \E v \in RequiredVars : env[v] \in {Absent, PlaceholderOf(v)}) =>
        /\ Returned(ret)
        /\ ret.value.result = PyNone
        /\ ret.value.error \in ConfigErrors

\* C9, amended: in the package a required configuration value that is absent
\* (unset or empty) makes the operation fail with a configuration error
\* before any HTTP request; placeholder text is rejected only in the default
\* phone-number ID and the default business-account ID; a NANGO_ identifier
\* left as placeholder text is not detected, and the operation goes on to
\* the credential fetch without a configuration error.
C9_ConfigErrors ==
    HandlerDone =>
        /\ (\E v \in RequiredVars : env[v] \in {Absent, ""}) =>
              /\ ret.value.result = PyNone
              /\ ret.value.error \in ConfigErrors
              /\ http = <<>>
        /\ (\E v \in FallsBackTo : env[v] = PlaceholderOf(v)) =>
              /\ ret.value.result = PyNone
              /\ ret.value.error \in ConfigErrors
              /\ http = <<>>
        /\ (/\ \E v \in NangoVars : env[v] = PlaceholderOf(v)
            /\ \A v \in RequiredVars : env[v] \notin {Absent, ""}
            /\ \A v \in FallsBackTo : env[v] # PlaceholderOf(v)) =>
              /\ ret.value.error \notin ConfigErrors
              /\ env["NANGO_BASE_URL"] = ValueOf("NANGO_BASE_URL") =>
                    (http # <<>> /\ http[1].service = "nango")

\* A handler that needed the unset secret key failed with the configuration
\* error and sent nothing.
C9_Witness ==
    /\ HandlerDone
    /\ env["NANGO_SECRET_KEY"] = Absent
    /\ ret = Return(Result(PyNone, "Missing required Nango environment variables"))
    /\ http = <<>>

\* Credential resolution fails in an invocation: configuration is missing,
\* the credential source's reply is not a success, or the credential
\* document holds no token.
CredentialResolutionFails ==
    \/ \E v \in NangoVars : env[v] \in {Absent, ""}
    \/ env["NANGO_BASE_URL"] # ValueOf("NANGO_BASE_URL")
    \/ ext.nango.net # "ok"
    \/ ext.nango.status >= 400
    \/ FirstLocation(ext.nango.doc) = 0

\* C10: when credential resolution fails in a handler invocation, the handler
\* returns {result: null, error: message} and sends no request to the Graph
\* API, neither to messages nor to message_templates.
C10_NoGraphRequest ==
    (HandlerDone /\ CredentialResolutionFails) =>
        /\ Returned(ret)
        /\ ret.value.result = PyNone
        /\ ret.value.error \notin {Null, ""}
        /\ RequestsTo("graph") = {}

\* The credential source refused; the handler returned the error after its
\* one request to the credential source.
C10_Witness ==
    /\ HandlerDone
    /\ call.op = "send_text_message"
    /\ ext.nango.status = 401
    /\ ret = Return(Result(PyNone, "Failed to get credentials from Nango"))
    /\ Len(http) = 1
    /\ http[1].service = "nango"

\* The invocation met a failure: it stopped before any request to the Graph
\* API (configuration, credentials, validation, an argument of the wrong
\* type), or the Graph API did not answer 200 (authentication, transport).
HandlerFailure ==
    \/ RequestsTo("graph") = {}
    \/ ext.graph.net # "ok"
    \/ ext.graph.status # 200

\* C11: no handler raises to its caller; every configuration, credential,
\* authentication, transport and validation failure, an argument of an
\* unexpected type included, is returned as {result: null, error: message}
\* with a message.
C11_FailuresReturned ==
    HandlerDone =>
        /\ Returned(ret)
        /\ HandlerFailure =>
              /\ ret.value.result = PyNone
              /\ ret.value.error # Null


\* The template list the invocation fetched: the Graph API answered its GET
\* with status 200 and a JSON object, whose "data" is the list (none: empty).
ListFetched ==
    /\ \E i \in RequestsTo("graph") : http[i].method = "GET"
    /\ ext.graph.net = "ok"
    /\ ext.graph.status = 200
    /\ ext.graph.body.kind = "dict"

FetchedList == IF ext.graph.body.has_data THEN ext.graph.body.data ELSE <<>>

\* C14: check_template_status, of the package and of src/server.py, with a
\* fetched template list returns {result: t, error: null} for the first
\* entry t whose name is template_name, and {result: null, error: "Template
\* not found"} when no entry has that name.
C14_FirstMatch ==
    (/\ ret # Pending
     /\ call.op \in {"check_template_status", "server.check_template_status"}
     /\ ListFetched) =>
        LET I == {i \in 1..Len(FetchedList) : FetchedList[i].name = call.template_name}
        IN IF I = {}
           THEN ret = Return(Result(PyNone, "Template not found"))
           ELSE \E i \in I :
                   /\ \A j \in I : i <= j
                   /\ ret = Return(Result(FetchedList[i], Null))

\* The package's check_template_status returned the first of the two
\* templates named b.
C14_Witness ==
    /\ ListFetched
    /\ call.op = "check_template_status"
    /\ call.template_name = "b"
    /\ Len(FetchedList) = 4
    /\ ret = Return(Result(Template("b", "PENDING"), Null))


\* A status with its letters in lower case.
casefold(x) ==
    CASE x \in {"APPROVED", "Approved", "approved"} -> "approved"
      [] x \in {"PENDING", "pending"} -> "pending"
      [] OTHER -> x

\* The fetched templates whose status is status_filter but for letter case.
WithStatus(templates, status_filter) ==
    SelectSeq(templates,
              LAMBDA t : t.status # Absent /\ casefold(t.status) = casefold(status_filter))

TemplatePosts ==
    {i \in RequestsTo("graph") :
        http[i].method = "POST" /\ http[i].resource = "message_templates"}

InvalidCategory ==
    "Invalid category. Must be one of: ['MARKETING', 'UTILITY', 'AUTHENTICATION']"

\* C16 as claimed: create_template with a category other than MARKETING,
\* UTILITY or AUTHENTICATION returns an error Result whose message lists the
\* three valid categories, and issues no POST to the Template API.
C16_Claimed ==
    (/\ HandlerDone
     /\ call.op = "create_template"
     /\ call.category \notin valid_categories) =>
        /\ ret = Return(Result(PyNone, InvalidCategory))
        /\ TemplatePosts = {}

\* The invocation built its template client: the business-account ID and
\* the credentials resolved.
TemplateClientBuilt == RequestsTo("nango") # {} /\ ~CredentialResolutionFails

\* C16, as the code has it: no copy of create_template POSTs a category
\* outside MARKETING, UTILITY, AUTHENTICATION.  The package compares the
\* category in upper case and sends it in upper case, so "marketing" is
\* accepted and sent as MARKETING; a category that is none of the three in
\* upper case returns an error Result and no POST is issued; the error lists
\* the three valid categories whenever the client was built, and otherwise
\* is the configuration or credential error; a null category returns the
\* error of calling upper() on it.
C16_CategoryValidated ==
    (ret # Pending /\ call.op \in {"create_template", "server.create_template"}) =>
        /\ \A i \in TemplatePosts : http[i].payload.category \in valid_categories
        /\ (call.op = "create_template" /\ call.category \in {"marketing", "Marketing"}
            /\ TemplateClientBuilt) =>
              /\ TemplatePosts # {}
              /\ \A i \in TemplatePosts : http[i].payload.category = "MARKETING"
        /\ (call.op = "create_template" /\ call.category \in {"social", Null}) =>
              /\ Returned(ret)
              /\ ret.value.result = PyNone
              /\ ret.value.error \notin {Null, ""}
              /\ TemplatePosts = {}
              /\ (TemplateClientBuilt /\ call.category = "social") =>
                    ret.value.error = InvalidCategory

\* create_template with category "social" and working credentials returned
\* the validation error after its one request to the credential source.
C16_Witness ==
    /\ HandlerDone
    /\ call.op = "create_template"
    /\ call.category = "social"
    /\ ret = Return(Result(PyNone, InvalidCategory))
    /\ Len(http) = 1
    /\ http[1].service = "nango"


\* The requests of the invocation that POST to the Messaging API.
MessagePosts ==
    {i \in RequestsTo("graph") : http[i].method = "POST" /\ http[i].resource = "messages"}

\* C17: every request body POSTed to the Messaging API by a send operation,
\* of the package or of the legacy copies, carries a recipient `to` that is
\* a non-empty string of digits only, whatever recipient the caller gave.
C17_DigitsOnlyRecipient ==
    \A i \in MessagePosts :
        /\ http[i].payload.to # <<>>
        /\ \A k \in 1..Len(http[i].payload.to) : isdigit(http[i].payload.to[k])


\* The body carries a non-empty value for each field its type requires.
RequiredFieldsPresent(payload) ==
    CASE payload.type = "text" -> payload.text.body # ""
      [] payload.type \in {"image", "video", "document", "audio"} ->
            payload[payload.type].link # ""
      [] payload.type = "template" ->
            payload.template.name # "" /\ payload.template.language.code # ""
      [] payload.type = "interactive" ->
            /\ payload.interactive.body.text # ""
            /\ IF payload.interactive.type = "list"
               THEN payload.interactive.action.sections # <<>>
               ELSE payload.interactive.action.buttons # <<>>
      [] OTHER -> FALSE

\* The call gives no value for a field its message type requires.
LacksRequiredField ==
    CASE call.op = "send_text_message" -> call.message = "" /\ call.template_name = ""
      [] call.op = "send_image_message" -> call.image_url = ""
      [] call.op = "send_video_message" -> call.video_url = ""
      [] call.op = "send_document_message" -> call.document_url = ""
      [] call.op = "send_audio_message" -> call.audio_url = ""
      [] call.op = "send_list_message" -> call.sections = <<>> \/ call.body_text = ""
      [] call.op = "send_button_message" -> call.buttons = <<>> \/ call.body_text = ""
      [] call.op = "send_template_message" -> call.template_name = ""
      [] OTHER -> FALSE

\* C18: every request body a handler POSTs to the Messaging API has a type
\* among text, image, video, document, audio, interactive, template and a
\* non-empty value for each required field of that type; a call that lacks
\* a required field returns an error Result instead of sending.
C18_RequiredFields ==
    HandlerDone =>
        /\ \A i \in MessagePosts : RequiredFieldsPresent(http[i].payload)
        /\ LacksRequiredField =>
              /\ MessagePosts = {}
              /\ ret.value.result = PyNone
              /\ ret.value.error # Null

\* The optional field is in the body exactly when the caller gave a
\* non-empty value for it.
PresentIffGiven(object, field, given) ==
    IF given \in {"", Null} THEN field \notin DOMAIN object
    ELSE field \in DOMAIN object /\ object[field] = given

\* C19: in every body sent by send_image_message, send_video_message,
\* send_document_message, send_list_message and send_button_message each
\* optional field (caption, filename, header text, footer text) is present
\* if and only if the caller gave a non-empty value for it.
C19_OptionalFields ==
    HandlerDone =>
        \A i \in MessagePosts :
            LET payload == http[i].payload IN
            CASE call.op \in {"send_image_message", "send_video_message"} ->
                    PresentIffGiven(payload[payload.type], "caption", call.caption)
              [] call.op = "send_document_message" ->
                    /\ PresentIffGiven(payload.document, "caption", call.caption)
                    /\ PresentIffGiven(payload.document, "filename", call.filename)
              [] call.op \in {"send_list_message", "send_button_message"} ->
                    /\ IF call.header_text = ""
                       THEN "header" \notin DOMAIN payload.interactive
                       ELSE /\ "header" \in DOMAIN payload.interactive
                            /\ payload.interactive.header.text = call.header_text
                    /\ IF call.footer_text = ""
                       THEN "footer" \notin DOMAIN payload.interactive
                       ELSE /\ "footer" \in DOMAIN payload.interactive
                            /\ payload.interactive.footer.text = call.footer_text
              [] OTHER -> TRUE

\* C20: every template message a handler sends, by send_template_message or
\* by the template branch of send_text_message, carries a language code of
\* the enumeration TemplateLanguage; a code outside it is sent as "en" and
\* the call does not fail on that account.
C20_LanguageFallback ==
    HandlerDone =>
        \A i \in MessagePosts :
            http[i].payload.type = "template" =>
                LET given == IF call.op = "send_text_message" THEN call.language_code
                             ELSE call.language
                    code == http[i].payload.template.language.code
                IN /\ code \in TemplateLanguage
                   /\ given \notin TemplateLanguage => code = "en"

\* The Graph API did not answer 200: a timeout or a transport exception,
\* or an answer with another status.
GraphFailed == ext.graph.net # "ok" \/ ext.graph.status # 200

\* C21: within one handler invocation at most one request is sent to the
\* Graph API; when that request times out, fails in transport or is answered
\* with a non-200 status, no further request is attempted and the invocation
\* returns the failure: result null, with the exception text of a timeout
\* and the non-empty message of an API error object as the error.
C21_NoRetry ==
    HandlerDone =>
        /\ Cardinality(RequestsTo("graph")) <= 1
        /\ (RequestsTo("graph") # {} /\ GraphFailed) =>
              /\ Returned(ret)
              /\ ret.value.result = PyNone
              /\ \A i \in 1..Len(http) : http[i].service = "graph" => i = Len(http)
              /\ ext.graph.net # "ok" => ret.value.error = TimeoutMessage
              /\ (/\ ext.graph.net = "ok"
                  /\ ext.graph.body.kind = "dict"
                  /\ ext.graph.body.error = "dict"
                  /\ Truthy(ext.graph.body.message)) =>
                        ret.value.error = ext.graph.body.message

\* The one request of a send timed out; the handler returned the timeout as
\* its error, after the credential fetch and that single request.
C21_Witness ==
    /\ HandlerDone
    /\ call.op = "send_audio_message"
    /\ ext.graph = TimeoutReply
    /\ Len(http) = 2
    /\ http[2].service = "graph"
    /\ ret = Return(Result(PyNone, TimeoutMessage))

\* A request of the invocation got no answer within its timeout.
TimedOut ==
    \/ RequestsTo("nango") # {} /\ ext.nango.net # "ok"
    \/ RequestsTo("graph") # {} /\ ext.graph.net # "ok"

\* C22: every invocation returns a Result: each HTTP request it makes, to
\* the credential source or to the Graph API, carries the fixed timeout of
\* 10 seconds, the invocation does not wait forever, and a request that
\* times out surfaces as an error Result.
C22_Terminates ==
    ret # Pending =>
        /\ \A i \in 1..Len(http) : http[i].timeout = {RequestTimeout}
        /\ ret # Hang
        /\ Returned(ret)
        /\ TimedOut => ret.value.result = PyNone /\ ret.value.error \notin {Null, ""}

\* The arguments of the call fail the validation of its handler: a recipient
\* that is no string or holds no digit, a missing media URL, neither message
\* nor template name, no sections, no button or more than three, a category
\* that is none of the valid ones.
FailsValidation ==
    \/ /\ "to" \in DOMAIN call
       /\ ~isstr(call.to) \/ ~HasDigit(call.to)
    \/ call.op = "send_text_message" /\ call.message = "" /\ call.template_name = ""
    \/ call.op = "send_image_message" /\ call.image_url = ""
    \/ call.op = "send_video_message" /\ call.video_url = ""
    \/ call.op = "send_document_message" /\ call.document_url = ""
    \/ call.op = "send_audio_message" /\ call.audio_url = ""
    \/ call.op = "send_list_message" /\ call.sections = <<>>
    \/ /\ call.op = "send_button_message"
       /\ call.buttons = <<>> \/ Len(call.buttons) > MaxButtons
    \/ /\ call.op = "create_template"
       /\ call.category = Null \/ upper(call.category) \notin valid_categories

\* C25: in every handler a call that fails argument validation sends no
\* request to the Graph API and returns an error Result: validation is
\* complete before the payload goes to the request client.
C25_ValidationFirst ==
    (HandlerDone /\ FailsValidation) =>
        /\ RequestsTo("graph") = {}
        /\ Returned(ret)
        /\ ret.value.result = PyNone
        /\ ret.value.error \notin {Null, ""}

\* send_audio_message without a URL, with a valid recipient and valid
\* credentials: the validation error, after the credential fetch only.
C25_Witness ==
    /\ HandlerDone
    /\ call.op = "send_audio_message"
    /\ call.audio_url = ""
    /\ call.to = <<"+", "7", "0">>
    /\ ext.graph = OkReply
    /\ ret = Return(Result(PyNone, "Audio URL is required"))
    /\ Len(http) = 1
    /\ http[1].service = "nango"

----------------------------------------------------------------------------
(* C29: the body parameters of a template payload *)

TemplateSenders == {"send_template_message", "server.send_template_message"}

\* The requests of the invocation that carry a template payload.
TemplateRequests ==
    {i \in RequestsTo("graph") :
        http[i].method = "POST" /\ http[i].payload.type = "template"}

\* The caller's parameter is an object with both keys.
HasBothKeys(param) == param.kind = "dict" /\ param.has_type /\ param.has_text

\* The body parameters of template t are the caller's, each with both keys.
BodyParametersOf(t, parameters) ==
    /\ "components" \in DOMAIN t
    /\ Len(t.components) = 1
    /\ t.components[1].type = "body"
    /\ LET sent == t.components[1].parameters IN
       /\ Len(sent) = Len(parameters)
       /\ \A k \in 1..Len(sent) :
             /\ HasBothKeys(sent[k])
             /\ HasBothKeys(parameters[k]) => sent[k] = parameters[k]
             /\ ~HasBothKeys(parameters[k]) => sent[k].text = str(parameters[k])

\* C29: in every template payload send_template_message sends, the body
\* parameters are the caller's in order, each an object with a type and a
\* text (one that has both keys unchanged, any other value v as the text
\* str(v)), and without parameters the template has no components field.
C29_TemplateParameters ==
    (call.op \in TemplateSenders /\ ret # Pending) =>
        \A i \in TemplateRequests :
            IF call.parameters = <<>>
            THEN "components" \notin DOMAIN http[i].payload.template
            ELSE BodyParametersOf(http[i].payload.template, call.parameters)

----------------------------------------------------------------------------
(* The dispatcher, package: server.py *)

\* The names list_tools declares.
ToolNames ==
    {"send_text_message", "send_image_message", "send_video_message",
     "send_document_message", "send_audio_message", "send_list_message",
     "send_button_message", "send_template_message", "check_template_status",
     "list_templates", "create_template"}

\* The names the if-chain of call_tool routes.
RoutedNames ==
    {"send_text_message", "send_image_message", "send_video_message",
     "send_document_message", "send_audio_message", "send_list_message",
     "send_button_message", "send_template_message", "check_template_status",
     "list_templates", "create_template"}

\* inputSchema.properties of each declared tool.
Properties(name) ==
    CASE name = "send_text_message" ->
            {"phone_number_id", "to", "message", "template_name", "language_code"}
      [] name = "send_image_message" -> {"phone_number_id", "to", "image_url", "caption"}
      [] name = "send_video_message" -> {"phone_number_id", "to", "video_url", "caption"}
      [] name = "send_document_message" ->
            {"phone_number_id", "to", "document_url", "caption", "filename"}
      [] name = "send_audio_message" -> {"phone_number_id", "to", "audio_url"}
      [] name = "send_list_message" ->
            {"phone_number_id", "to", "sections", "header_text", "body_text",
             "footer_text", "button_text"}
      [] name = "send_button_message" ->
            {"phone_number_id", "to", "body_text", "buttons", "header_text", "footer_text"}
      [] name = "send_template_message" ->
            {"phone_number_id", "to", "template_name", "parameters", "language"}
      [] name = "check_template_status" -> {"business_account_id", "template_name"}
      [] name = "list_templates" -> {"business_account_id", "status_filter"}
      [] name = "create_template" ->
            {"business_account_id", "template_name", "language", "category", "components"}
      [] OTHER -> {}

\* inputSchema.required of each declared tool.
SchemaRequired(name) ==
    CASE name = "send_text_message" -> {"phone_number_id", "to"}
      [] name = "send_image_message" -> {"phone_number_id", "to", "image_url"}
      [] name = "send_video_message" -> {"phone_number_id", "to", "video_url"}
      [] name = "send_document_message" -> {"phone_number_id", "to", "document_url"}
      [] name = "send_audio_message" -> {"phone_number_id", "to", "audio_url"}
      [] name = "send_list_message" -> {"phone_number_id", "to", "sections"}
      [] name = "send_button_message" -> {"phone_number_id", "to", "body_text", "buttons"}
      [] name = "send_template_message" -> {"phone_number_id", "to", "template_name"}
      [] name = "check_template_status" -> {"business_account_id", "template_name"}
      [] name = "list_templates" -> {"business_account_id"}
      [] name = "create_template" ->
            {"business_account_id", "template_name", "language", "category", "components"}
      [] OTHER -> {}

\* The parameters of each handler's signature.
Parameters(name) ==
    CASE name = "send_text_message" ->
            {"to", "message", "template_name", "language_code", "phone_number_id"}
      [] name = "send_image_message" -> {"to", "image_url", "caption", "phone_number_id"}
      [] name = "send_video_message" -> {"to", "video_url", "caption", "phone_number_id"}
      [] name = "send_document_message" ->
            {"to", "document_url", "caption", "filename", "phone_number_id"}
      [] name = "send_audio_message" -> {"to", "audio_url", "phone_number_id"}
      [] name = "send_list_message" ->
            {"phone_number_id", "to", "sections", "header_text", "body_text",
             "footer_text", "button_text"}
      [] name = "send_button_message" ->
            {"phone_number_id", "to", "body_text", "buttons", "header_text", "footer_text"}
      [] name = "send_template_message" ->
            {"to", "template_name", "parameters", "language", "phone_number_id"}
      [] name = "check_template_status" -> {"template_name", "business_account_id"}
      [] name = "list_templates" -> {"status_filter", "business_account_id"}
      [] name = "create_template" ->
            {"template_name", "language", "category", "components", "business_account_id"}
      [] OTHER -> {}

NoDefault_every_parameter(name) == Parameters(name)

\* The parameters of each handler's signature that have no default.
NoDefault(name) ==
    CASE name = "send_text_message" -> {"to"}
      [] name = "send_image_message" -> {"to", "image_url"}
      [] name = "send_video_message" -> {"to", "video_url"}
      [] name = "send_document_message" -> {"to", "document_url"}
      [] name = "send_audio_message" -> {"to", "audio_url"}
      [] name = "send_list_message" -> {"phone_number_id", "to", "sections"}
      [] name = "send_button_message" -> {"phone_number_id", "to", "body_text", "buttons"}
      [] name = "send_template_message" -> {"to", "template_name"}
      [] name = "check_template_status" -> {"template_name"}
      [] name = "list_templates" -> {}
      [] name = "create_template" -> {"template_name", "language", "category", "components"}
      [] OTHER -> {}

\* The default of parameter p in the signature of handler `name`.  The default
\* None of `parameters` is the empty list here: the handler tests it only
\* with `if parameters`.
Default(name, p) ==
    CASE p \in {"phone_number_id", "business_account_id"} -> Null
      [] p = "language_code" -> "en_US"
      [] p = "language" -> "en"
      [] p = "parameters" -> <<>>
      [] p = "header_text" /\ name = "send_list_message" -> "Available Options"
      [] p = "body_text" -> "Please select from the following options:"
      [] p = "footer_text" /\ name = "send_list_message" -> "Select an option to proceed"
      [] p = "button_text" -> "Options"
      [] OTHER -> ""

\* handler(**arguments): the handler's parameters bound to the arguments
\* object, or the TypeError of a keyword the signature does not have or of a
\* parameter without default that got no value.
Bind(name, arguments) ==
    IF DOMAIN arguments \ Parameters(name) # {}
    THEN Raise("TypeError", name \o "() got an unexpected keyword argument")
    ELSE IF NoDefault(name) \ DOMAIN arguments # {}
    THEN Raise("TypeError", name \o "() missing required positional argument")
    ELSE Return([p \in Parameters(name) |->
                    IF p \in DOMAIN arguments THEN arguments[p] ELSE Default(name, p)])

\* The handler `name` called with the bound parameters a.
Invoke(name, a, e, nango, graph) ==
    CASE name = "send_text_message" ->
            send_text_message(e, nango, graph, a.to, a.message, a.template_name,
                              a.language_code, a.phone_number_id)
      [] name = "send_image_message" ->
            send_image_message(e, nango, graph, a.to, a.image_url, a.caption,
                               a.phone_number_id)
      [] name = "send_video_message" ->
            send_video_message(e, nango, graph, a.to, a.video_url, a.caption,
                               a.phone_number_id)
      [] name = "send_document_message" ->
            send_document_message(e, nango, graph, a.to, a.document_url, a.caption,
                                  a.filename, a.phone_number_id)
      [] name = "send_audio_message" ->
            send_audio_message(e, nango, graph, a.to, a.audio_url, a.phone_number_id)
      [] name = "send_list_message" ->
            send_list_message(e, nango, graph, a.phone_number_id, a.to, a.sections,
                              a.header_text, a.body_text, a.footer_text, a.button_text)
      [] name = "send_button_message" ->
            send_button_message(e, nango, graph, a.phone_number_id, a.to, a.body_text,
                                a.buttons, a.header_text, a.footer_text)
      [] name = "send_template_message" ->
            send_template_message(e, nango, graph, a.to, a.template_name, a.parameters,
                                  a.language, a.phone_number_id)
      [] name = "check_template_status" ->
            check_template_status(e, nango, graph, a.template_name, a.business_account_id)
      [] name = "list_templates" ->
            list_templates(e, nango, graph, a.status_filter, a.business_account_id)
      [] name = "create_template" ->
            create_template(e, nango, graph, a.template_name, a.language, a.category,
                            a.components, a.business_account_id)

\* json.dumps(value, indent=2): the JSON text, represented by the value it
\* encodes.  Every value serialized here is made of str, int, None, list and
\* dict, which json.dumps encodes without a `default`.
json_dumps(value) == [json |-> value]

\* [TextContent(type="text", text=text)]
TextContent(text) == <<[type |-> "text", text |-> text]>>

\* {"error": str(e), "tool": name, "arguments": arguments}
error_result(msg, name, arguments) ==
    [error |-> msg, tool |-> name, arguments |-> arguments]

\* What call_tool yields: its outcome, the requests of the invocation and the
\* handler that ran ("none" when no handler body ran).
Served(out, reqs, handler) == [out |-> out, http |-> reqs, invoked |-> handler]

call_tool_unguarded(name, arguments, e, nango, graph) ==
    IF name \notin RoutedNames
    THEN Served(Return(TextContent(json_dumps(
                    error_result("Unknown tool: " \o name, name, arguments)))),
                <<>>, "none")
    ELSE LET bound == Bind(name, arguments) IN
         IF Raised(bound) THEN Served(bound, <<>>, "none")
         ELSE LET s == Invoke(name, bound.value, e, nango, graph) IN
              IF Raised(s.out) THEN Served(s.out, s.http, name)
              ELSE Served(Return(TextContent(json_dumps(s.out.value))), s.http, name)

\* call_tool, once the handler body has run with outcome s: the JSON text of
\* its Result, or of the error result when it raised.
Respond(name, arguments, s) ==
    IF Raised(s.out)
    THEN Served(Return(TextContent(json_dumps(
                    error_result(s.out.msg, name, arguments)))),
                s.http, name)
    ELSE Served(Return(TextContent(json_dumps(s.out.value))), s.http, name)

\* call_tool
call_tool(name, arguments, e, nango, graph) ==
    IF name \notin RoutedNames
    THEN Served(Return(TextContent(json_dumps(
                    error_result("Unknown tool: " \o name, name, arguments)))),
                <<>>, "none")
    ELSE IF Raised(Bind(name, arguments))
    THEN Served(Return(TextContent(json_dumps(
                    error_result(Bind(name, arguments).msg, name, arguments)))),
                <<>>, "none")
    ELSE Respond(name, arguments,
                 Invoke(name, Bind(name, arguments).value, e, nango, graph))

----------------------------------------------------------------------------
(* The dispatcher called with every name and every arguments object *)

\* The value a client passes under each key of the arguments object.
ArgValue(k) ==
    CASE k = "to" -> <<"+", "7", "0">>
      [] k = "phone_number_id" -> "phone-1"
      [] k = "business_account_id" -> "waba-1"
      [] k = "message" -> "hi"
      [] k = "template_name" -> "b"
      [] k = "language_code" -> "en_US"
      [] k \in {"image_url", "video_url", "document_url", "audio_url"} -> "http://m"
      [] k = "caption" -> "cap"
      [] k = "filename" -> "f.pdf"
      [] k = "sections" -> <<Section>>
      [] k = "header_text" -> "H"
      [] k = "body_text" -> "B"
      [] k = "footer_text" -> "F"
      [] k = "button_text" -> "Options"
      [] k = "buttons" -> <<Button(1)>>
      [] k = "parameters" -> <<Param("dict", TRUE, TRUE, "John")>>
      [] k = "language" -> "es"
      [] k = "status_filter" -> "approved"
      [] k = "category" -> "MARKETING"
      [] k = "components" -> <<>>
      [] OTHER -> "x"

\* A name list_tools does not declare.
UnknownName == "delete_message"

\* The arguments objects sent with a name: every set of the tool's declared
\* properties, with or without a key the schema does not declare.
ArgumentsOf(name) ==
    {[k \in K |-> ArgValue(k)] : K \in SUBSET (Properties(name) \cup {"undeclared"})}

ServerWorlds ==
    {World(e, n, g) :
        e \in {FullEnv, [FullEnv EXCEPT !["WHATSAPP_PHONE_NUMBER_ID"] = Absent]},
        n \in {GoodNango, NangoReply("ok", 401, NoDoc)},
        g \in {OkReply, DeniedReply}}

InitServer ==
    /\ \E w \in ServerWorlds :
        /\ env = w.env
        /\ ext = [nango |-> w.nango, graph |-> w.graph]
    /\ call = NoCall
    /\ http = <<>>
    /\ ret = Pending
    /\ log = <<>>

\* The call and what it yielded are recorded.
Dispatched(name, arguments, s) ==
    /\ call' = [op |-> "call_tool", name |-> name, arguments |-> arguments,
                invoked |-> s.invoked]
    /\ ret' = s.out
    /\ http' = s.http

CallTool ==
    /\ ret = Pending
    /\ \E name \in ToolNames \cup {UnknownName} :
        \E arguments \in ArgumentsOf(name) :
            Dispatched(name, arguments,
                       call_tool(name, arguments, env, ext.nango, ext.graph))
    /\ UNCHANGED <<env, ext, log>>

NextServer == CallTool

SpecServer == InitServer /\ [][NextServer]_vars

\* call_tool has answered.
ServerDone == call.op = "call_tool" /\ ret # Pending

\* The response that reports error message msg for the call.
ErrorResponse(msg) ==
    Return(TextContent(json_dumps(error_result(msg, call.name, call.arguments))))

\* The arguments object does not fit the signature of the handler named.
BindingFails ==
    \/ DOMAIN call.arguments \ Parameters(call.name) # {}
    \/ NoDefault(call.name) \ DOMAIN call.arguments # {}

\* C12: call_tool lets no exception escape: for every name and arguments
\* object it returns a response; for an unknown name, and when the handler
\* call fails on a missing or an undeclared argument, the response is an
\* error result carrying the message, the operation name and the arguments,
\* and for an unknown name no handler runs.
C12_NeverEscapes ==
    ServerDone =>
        /\ Returned(ret)
        /\ call.name \notin ToolNames =>
              /\ ret = ErrorResponse("Unknown tool: " \o call.name)
              /\ call.invoked = "none"
              /\ http = <<>>
        /\ (call.name \in ToolNames /\ BindingFails) =>
              /\ \E msg \in {call.name \o "() got an unexpected keyword argument",
                             call.name \o "() missing required positional argument"} :
                    ret = ErrorResponse(msg)
              /\ call.invoked = "none"
              /\ http = <<>>

\* send_audio_message, called without its recipient, was answered with the
\* error result that carries the TypeError, the name and the arguments.
C12_Witness ==
    /\ ServerDone
    /\ call.name = "send_audio_message"
    /\ DOMAIN call.arguments = {"phone_number_id", "audio_url"}
    /\ call.invoked = "none"
    /\ ret = ErrorResponse("send_audio_message() missing required positional argument")

\* The arguments object satisfies the declared input schema of the tool.
SatisfiesSchema ==
    /\ SchemaRequired(call.name) \subseteq DOMAIN call.arguments
    /\ DOMAIN call.arguments \subseteq Properties(call.name)

\* The handler named, called with exactly the arguments of the call: each
\* declared property takes the argument given, or the signature's default.
HandlerOutcome ==
    Invoke(call.name,
           [p \in Properties(call.name) |->
               IF p \in DOMAIN call.arguments THEN call.arguments[p]
               ELSE Default(call.name, p)],
           env, ext.nango, ext.graph)

\* C13: list_tools declares exactly the names call_tool routes; for each of
\* them and every arguments object that satisfies the tool's input schema,
\* binding succeeds, the handler of that name runs with exactly those
\* arguments, and the response body is the JSON text of the handler's Result.
C13_SchemaBinding ==
    /\ ToolNames = RoutedNames
    /\ (ServerDone /\ call.name \in ToolNames /\ SatisfiesSchema) =>
          /\ call.invoked = call.name
          /\ ret = Return(TextContent(json_dumps(HandlerOutcome.out.value)))
          /\ http = HandlerOutcome.http

\* send_document_message, called with every declared property, sent the
\* document and answered with the handler's success Result.
C13_Witness ==
    /\ ServerDone
    /\ call.name = "send_document_message"
    /\ DOMAIN call.arguments = Properties("send_document_message")
    /\ ext.graph = OkReply
    /\ ret = Return(TextContent(json_dumps(Result(OkReply.body, Null))))
    /\ Len(http) = 2
    /\ http[2].payload.document.filename = "f.pdf"

----------------------------------------------------------------------------
(* Several invocations, each split at its two requests: the handler runs up
   to its Graph API request, other invocations and changes of the outside
   world may come in between, then the request is answered. *)

\* The invocations in flight.
Invocations == {"first", "second"}

\* The handler stands before its Graph API request with its own client.
Ready(client, payload) == [state |-> "ready", client |-> client, payload |-> payload]

\* The handler `op` with arguments a, up to its Graph API request: the
\* Result when it ends earlier, else the client it built and the payload.
Prepare(op, a, e, nango) ==
    CASE op = "send_audio_message" ->
            LET o == Opening(e, nango, a.to, PhoneNumberId(e, a.phone_number_id)) IN
            IF Raised(o.out) THEN Fail(o.out.msg, o.http)
            ELSE IF ~Truthy(a.audio_url) THEN Fail("Audio URL is required", o.http)
            ELSE Step(Ready(o.out.value.client,
                            MediaPayload(o.out.value.to_clean, "audio",
                                         Media(a.audio_url, FALSE, "", FALSE, ""))),
                      o.http)
      [] op = "check_template_status" ->
            LET c == TemplateOpening(e, nango, a.business_account_id) IN
            IF Raised(c.out) THEN Fail(c.out.msg, c.http)
            ELSE Step(Ready(c.out.value, NoPayload), c.http)

\* check_template_status, from the answer r of get_templates on.
TemplateStatus(r, template_name, before) ==
    IF Truthy(r.out.value.error) THEN Step(r.out, before \o r.http)
    ELSE IF Raised(FetchedTemplates(r.out.value.result))
    THEN Fail(FetchedTemplates(r.out.value.result).msg, before \o r.http)
    ELSE IF FirstNamed(FetchedTemplates(r.out.value.result).value, template_name) # 0
    THEN Step(Return(Result(
                  FetchedTemplates(r.out.value.result).value[
                      FirstNamed(FetchedTemplates(r.out.value.result).value,
                                 template_name)],
                  Null)),
              before \o r.http)
    ELSE Fail("Template not found", before \o r.http)

Complete_shared_client(op, a, ready, graph, before) ==
    LET j == CHOOSE j \in DOMAIN call : call[j].pc = "ready" IN
    CASE op = "send_audio_message" ->
            Send(call[j].ready.client, call[j].ready.payload, graph, before)
      [] op = "check_template_status" ->
            TemplateStatus(get_templates(call[j].ready.client, graph), a.template_name,
                           before)

\* The handler `op` from its Graph API request on, answered with `graph`.
Complete(op, a, ready, graph, before) ==
    CASE op = "send_audio_message" -> Send(ready.client, ready.payload, graph, before)
      [] op = "check_template_status" ->
            TemplateStatus(get_templates(ready.client, graph), a.template_name, before)

\* The replies of the credential source and of the Graph API while the
\* invocations run: the token is replaced, the source refuses; the Graph API
\* accepts, refuses, times out, lists templates.
CallNango ==
    {GoodNango, NangoReply("ok", 200, Doc("dict", Absent, "dict", "X", Absent)),
     NangoReply("ok", 401, NoDoc)}

CallGraph ==
    {OkReply, DeniedReply, TimeoutReply,
     GraphReply("ok", 200, DictBody("absent", Absent, Absent, TRUE,
                                    <<Template("a", Absent), Template("b", "APPROVED")>>))}

CallArguments(op) ==
    IF op = "send_audio_message"
    THEN {[to |-> to, audio_url |-> u, phone_number_id |-> p] :
             to \in {<<"a">>, <<"+", "7", "0">>}, u \in Urls, p \in PhoneNumberIds}
    ELSE {[template_name |-> "b", business_account_id |-> b] : b \in BusinessAccountIds}

InitCalls ==
    /\ env \in {FullEnv, [FullEnv EXCEPT !["WHATSAPP_PHONE_NUMBER_ID"] = Absent]}
    /\ ext \in {[nango |-> n, graph |-> g] : n \in CallNango, g \in CallGraph}
    /\ call = [i \in Invocations |-> [pc |-> "idle"]]
    /\ http = [i \in Invocations |-> <<>>]
    /\ ret = [i \in Invocations |-> Pending]
    /\ log = <<>>

\* Invocation i ran up to its Graph API request, or to its early end.
Entered(i, op, a, s) ==
    /\ call' = [call EXCEPT ![i] =
                   [pc |-> IF s.out.state = "ready" THEN "ready" ELSE "done",
                    op |-> op, arguments |-> a, nango |-> ext.nango,
                    graph |-> NoReply, ready |-> s.out]]
    /\ http' = [http EXCEPT ![i] = s.http]
    /\ ret' = [ret EXCEPT ![i] = IF s.out.state = "ready" THEN Pending ELSE s.out]

Enter ==
    /\ \E i \in Invocations :
        /\ call[i].pc = "idle"
        /\ \E op \in {"send_audio_message", "check_template_status"} :
            \E a \in CallArguments(op) : Entered(i, op, a, Prepare(op, a, env, ext.nango))
    /\ UNCHANGED <<env, ext, log>>

\* The Graph API request of invocation i was answered and the handler ended.
Left(i, s) ==
    /\ call' = [call EXCEPT ![i].pc = "done", ![i].graph = ext.graph]
    /\ http' = [http EXCEPT ![i] = s.http]
    /\ ret' = [ret EXCEPT ![i] = s.out]

Leave ==
    /\ \E i \in Invocations :
        /\ call[i].pc = "ready"
        /\ Left(i, Complete(call[i].op, call[i].arguments, call[i].ready, ext.graph,
                            http[i]))
    /\ UNCHANGED <<env, ext, log>>

\* The outside world changes between the steps of the invocations: the
\* credential source hands out another token, the Graph API answers otherwise.
Change ==
    /\ \E i \in Invocations : call[i].pc # "done"
    /\ \E n \in CallNango, g \in CallGraph :
        /\ [nango |-> n, graph |-> g] # ext
        /\ ext' = [nango |-> n, graph |-> g]
    /\ UNCHANGED <<env, call, http, ret, log>>

NextCalls == Enter \/ Leave \/ Change

SpecCalls == InitCalls /\ [][NextCalls]_vars

\* The token at the first location of credential document d that holds one.
TokenIn(d) == TokenLocations(d)[FirstLocation(d)]

\* The positions of the Graph API requests of invocation i.
GraphRequestsOf(i) == {k \in 1..Len(http[i]) : http[i][k].service = "graph"}

\* C23: every invocation that sends a Graph API request has fetched the
\* credentials itself before, within the same invocation, and the bearer
\* token of the request is the token of the document that fetch returned; a
\* token obtained by another invocation is never reused.
C23_OwnCredentialFetch ==
    \A i \in Invocations :
        \A k \in GraphRequestsOf(i) :
            /\ \E j \in 1..(k - 1) :
                  /\ http[i][j].service = "nango"
                  /\ http[i][j].method = "GET"
            /\ FirstLocation(call[i].nango.doc) # 0
            /\ http[i][k].auth = TokenIn(call[i].nango.doc)

\* Both invocations sent their request; the credential source handed out
\* another token in between, and each request carries its own.
C23_Witness ==
    /\ \A i \in Invocations : call[i].pc = "done" /\ GraphRequestsOf(i) = {2}
    /\ http["first"][2].auth = "Y"
    /\ http["second"][2].auth = "X"

\* The handler of invocation i run alone, in one piece, with the same
\* arguments against the same configuration and the replies it was given.
Alone(i) ==
    CASE call[i].op = "send_audio_message" ->
            send_audio_message(env, call[i].nango, call[i].graph, call[i].arguments.to,
                               call[i].arguments.audio_url,
                               call[i].arguments.phone_number_id)
      [] call[i].op = "check_template_status" ->
            check_template_status(env, call[i].nango, call[i].graph,
                                  call[i].arguments.template_name,
                                  call[i].arguments.business_account_id)

\* C24: whatever the order and the interleaving of two invocations, each
\* one's Result, and the requests it sent, are those of the same invocation
\* run alone against the same configuration and the same replies.
C24_Independent ==
    \A i \in Invocations :
        call[i].pc = "done" => ret[i] = Alone(i).out /\ http[i] = Alone(i).http

\* Two invocations of different handlers both reached the Graph API, were
\* given different replies, and each ended with the outcome of its own.
C24_Witness ==
    /\ call["first"].pc = "done" /\ call["first"].op = "check_template_status"
    /\ call["second"].pc = "done" /\ call["second"].op = "send_audio_message"
    /\ call["first"].nango # call["second"].nango
    /\ ret["first"] = Return(Result(Template("b", "APPROVED"), Null))
    /\ ret["second"] = Return(Result(PyNone, "Invalid token"))
    /\ Len(http["first"]) = 2 /\ Len(http["second"]) = 2

\* The identifier parameter of the tool and the variable of its default.
IdentifierOf(name) ==
    IF name \in {"check_template_status", "list_templates", "create_template"}
    THEN "business_account_id" ELSE "phone_number_id"

DefaultVarOf(name) ==
    IF IdentifierOf(name) = "business_account_id" THEN "WHATSAPP_BUSINESS_ACCOUNT_ID"
    ELSE "WHATSAPP_PHONE_NUMBER_ID"

\* The arguments fit the handler's signature, the identifier left aside.
OthersBind ==
    /\ DOMAIN call.arguments \subseteq Parameters(call.name)
    /\ NoDefault(call.name) \ {IdentifierOf(call.name)} \subseteq DOMAIN call.arguments

\* The response reports that the default identifier is not configured.
DefaultMissingReported ==
    \E v \in {"WHATSAPP_PHONE_NUMBER_ID", "WHATSAPP_BUSINESS_ACCOUNT_ID"} :
        ret = Return(TextContent(json_dumps(Result(PyNone,
                  v \o " environment variable is not set or still contains placeholder value"))))

\* C26: for every operation that takes a phone_number_id or a
\* business_account_id, a call without the identifier runs the handler with
\* the configured default, and a call with it runs the handler with the
\* value given and does not read the default, so that a missing default
\* cannot fail it.
C26_DefaultIdentifier ==
    (ServerDone /\ call.name \in ToolNames /\ OthersBind) =>
        IF IdentifierOf(call.name) \in DOMAIN call.arguments
        THEN /\ call.invoked = call.name
             /\ ~DefaultMissingReported
             /\ \A i \in RequestsTo("graph") :
                    http[i].id = call.arguments[IdentifierOf(call.name)]
        ELSE /\ call.invoked = call.name
             /\ \A i \in RequestsTo("graph") : http[i].id = env[DefaultVarOf(call.name)]
             /\ env[DefaultVarOf(call.name)] = Absent => DefaultMissingReported

----------------------------------------------------------------------------
(* The standalone scripts of src/tools: main() constructs the script's own
   WhatsAppClient and calls its one method. *)

\* WhatsAppClient(...) as main calls it: __init__ takes `accepts` arguments
\* besides self, main passes `passed`.
ToolClient(accepts, passed, e, nango, res, id) ==
    IF passed # accepts
    THEN Step(Raise("TypeError",
                    "__init__() takes 2 positional arguments but 3 were given"),
              <<>>)
    ELSE LegacyClientInit(e, nango, res, id)

\* The send method of a script: the recipient and the URL are tested, the
\* payload is POSTed, the reply is normalized.
ToolsSend(client, to, url, payload, url_error, reply, before) ==
    IF to = <<>> THEN Fail("Recipient phone number is required", before)
    ELSE IF url = "" THEN Fail(url_error, before)
    ELSE Step(Return(handle_response(reply, "message")),
              before \o <<GraphRequest("POST", client, payload)>>)

\* src/tools/send_documents.py: main
tools_send_documents_main(e, nango, graph, connection_id, phone_number_id, to, document_url, caption) ==
    LET c == ToolClient(1, 2, e, nango, "messages", phone_number_id) IN
    IF c.out = Hang THEN c
    ELSE IF Raised(c.out) THEN Fail(c.out.msg, c.http)
    ELSE ToolsSend(c.out.value, to, document_url,
                   MediaPayload(to, "document",
                                Media(document_url, caption # "", caption, FALSE, "")),
                   "Document URL is required", graph, c.http)

\* src/tools/send_voice_message.py: main
tools_send_voice_message_main(e, nango, graph, phone_number_id, to, audio_url) ==
    LET c == ToolClient(1, 1, e, nango, "messages", phone_number_id) IN
    IF c.out = Hang THEN c
    ELSE IF Raised(c.out) THEN Fail(c.out.msg, c.http)
    ELSE ToolsSend(c.out.value, to, audio_url,
                   MediaPayload(to, "audio", Media(audio_url, FALSE, "", FALSE, "")),
                   "Audio URL is required", graph, c.http)

\* src/tools/send_image_using_url.py: main
tools_send_image_main(e, nango, graph, connection_id, phone_number_id, to, image_url, caption) ==
    LET c == ToolClient(1, 2, e, nango, "messages", phone_number_id) IN
    IF c.out = Hang THEN c
    ELSE IF Raised(c.out) THEN Fail(c.out.msg, c.http)
    ELSE LET s == tools_send_image_with_text(c.out.value, to, caption, image_url, graph)
         IN Step(s.out, c.http \o s.http)

\* src/tools/check_template_approve_status.py: WhatsAppClient.check_template_status
tools_check_template_status(client, template_name, reply, before) ==
    LET reqs == before \o <<GraphRequest("GET", client, NoPayload)>>
        response_data == json(reply.body)
    IN IF reply.net # "ok" THEN Fail(TimeoutMessage, reqs)
       ELSE IF Raised(response_data) THEN Fail(response_data.msg, reqs)
       ELSE IF reply.status = 200
            THEN LET templates == FetchedTemplates(response_data.value) IN
                 IF Raised(templates) THEN Fail(templates.msg, reqs)
                 ELSE LET i == FirstNamed(templates.value, template_name) IN
                      IF i # 0
                      THEN Step(Return(Result(templates.value[i], Null)), reqs)
                      ELSE Fail("Template not found", reqs)
       ELSE LET m == error_message(reply.body, "message") IN
            Fail(IF Raised(m) THEN m.msg ELSE m.value, reqs)

\* src/tools/check_template_approve_status.py: main
tools_check_template_main(e, nango, graph, connection_id, business_account_id, template_name) ==
    LET c == ToolClient(1, 2, e, nango, "message_templates", business_account_id) IN
    IF c.out = Hang THEN c
    ELSE IF Raised(c.out) THEN Fail(c.out.msg, c.http)
    ELSE tools_check_template_status(c.out.value, template_name, graph, c.http)

InitTools ==
    /\ env = FullEnv
    /\ ext \in {[nango |-> n, graph |-> g] :
                   n \in {GoodNango, NangoReply("ok", 401, NoDoc)}, g \in GraphReplies}
    /\ call = NoCall
    /\ http = <<>>
    /\ ret = Pending
    /\ log = <<>>

ToolsSendDocumentsMain ==
    /\ ret = Pending
    /\ \E to \in {<<>>, <<"7", "0">>}, document_url \in Urls, caption \in Captions :
        Ran([op |-> "tools.send_documents.main", to |-> to, url |-> document_url,
             caption |-> caption],
            tools_send_documents_main(env, ext.nango, ext.graph, "conn-1", "phone-1", to,
                                      document_url, caption))

ToolsSendVoiceMessageMain ==
    /\ ret = Pending
    /\ \E to \in {<<>>, <<"7", "0">>}, audio_url \in Urls :
        Ran([op |-> "tools.send_voice_message.main", to |-> to, url |-> audio_url],
            tools_send_voice_message_main(env, ext.nango, ext.graph, "phone-1", to,
                                          audio_url))

ToolsSendImageMain ==
    /\ ret = Pending
    /\ \E to \in {<<>>, <<"7", "0">>}, image_url \in Urls, caption \in Captions :
        Ran([op |-> "tools.send_image_using_url.main", to |-> to, url |-> image_url,
             caption |-> caption],
            tools_send_image_main(env, ext.nango, ext.graph, "conn-1", "phone-1", to,
                                  image_url, caption))

ToolsCheckTemplateMain ==
    /\ ret = Pending
    /\ \E template_name \in {"b", "z"} :
        Ran([op |-> "tools.check_template_approve_status.main", to |-> <<"7", "0">>,
             url |-> "none", template_name |-> template_name],
            tools_check_template_main(env, ext.nango, ext.graph, "conn-1", "waba-1",
                                      template_name))

NextTools ==
    \/ ToolsSendDocumentsMain
    \/ ToolsSendVoiceMessageMain
    \/ ToolsSendImageMain
    \/ ToolsCheckTemplateMain

SpecTools == InitTools /\ [][NextTools]_vars

\* A script's main has ended.
ToolMainDone ==
    /\ ret # Pending
    /\ call.op \in {"tools.send_documents.main", "tools.send_voice_message.main",
                    "tools.send_image_using_url.main",
                    "tools.check_template_approve_status.main"}

\* C28: the main of each standalone script, called with valid arguments
\* while the credential source yields a token, constructs its client, sends
\* exactly one request to the Graph API with that token and returns a Result;
\* a send accepted with status 200 returns the parsed body and no error.
C28_ScriptMain ==
    (ToolMainDone /\ ext.nango = GoodNango /\ call.to # <<>> /\ call.url # "") =>
        /\ Returned(ret)
        /\ Cardinality(RequestsTo("graph")) = 1
        /\ \A i \in RequestsTo("graph") : http[i].auth = "Y"
        /\ (ext.graph = OkReply /\ "template_name" \notin DOMAIN call) =>
              ret.value = Result(OkReply.body, Null)

====
